---- MODULE Spec2Model ----
(***************************************************************************)
(* Vanity address search subsystem of plebs/backend/services/              *)
(* vanityService.js: the VanityService job manager (pattern validation,    *)
(* difficulty estimate, admission control, worker supervision, timeout,    *)
(* cancel) and the worker thread vanityWorker.js it spawns.                *)
(***************************************************************************)
EXTENDS Integers, Sequences, FiniteSets, TLC

(***************************************************************************)
(* Bounds of the model.                                                    *)
(***************************************************************************)
\* longest pattern (in symbols) fed to validatePattern
MaxLen == 7
\* number of jobs created in one behaviour of the lifecycle model (Spec)
MaxJobs == 2
\* number of jobs created in one behaviour of the admission model
MaxAdmitted == 4
\* number of jobs created in one behaviour of the slot model
MaxSlots == 3
\* number of jobs created in one behaviour of the progress model
MaxReporting == 2
\* number of jobs created in one behaviour of the notifier model
MaxNotified == 1
\* attempts a worker makes in the progress and notifier models
MaxAttempts == 21000
\* messages a worker's port holds before the manager handles one
MaxPending == 1
\* number of jobs created in one behaviour of the status model
MaxViewed == 2
\* number of jobs created in one behaviour of the identifier model, and
\* number of the values a drawn jobId takes there (16^16 in the code)
MaxDrawn == 3
MaxJobIds == 3
\* the clock of the status model advances MaxTicks times by TickMs
MaxTicks == 3
TickMs == 45000
\* longest pattern fed to calculateDifficulty in the difficulty model,
\* which takes the patterns of up to MaxLen and of MaxLongLen - 1 and
\* MaxLongLen symbols
MaxLongLen == 176
\* the difficulty model feeds getDifficultyWarning the estimates within
\* WarningWindow of each threshold
WarningWindow == 8
\* attempts of a worker run that the worker model follows one by one from
\* the start; it takes the attempts between these and the last
\* PROGRESS_INTERVAL ones in one step
NearAttempts == 2000

(***************************************************************************)
(* Program constants.                                                      *)
(***************************************************************************)
maxConcurrentJobs == 3
maxPatternLength == 6
base58Chars == 58
NOTIFY_INTERVAL == 10000
PROGRESS_INTERVAL == 1000
MAX_ATTEMPTS == 100000000

(***************************************************************************)
(* Exact arithmetic on naturals beyond the 32-bit range: 58^len does not   *)
(* fit a machine integer for len >= 6.  A number is the sequence of its    *)
(* base-10000 digits, least significant first, without leading zeros.      *)
(* The JavaScript code computes in doubles.  Up to 2^53 its values are     *)
(* integers or quotients compared against integer thresholds, and exact    *)
(* arithmetic gives the same results; beyond 2^53 a double is the nearest  *)
(* representable number, which keeps the order of two values that differ   *)
(* by a factor; from 2^1024 on it is Infinity.                             *)
(***************************************************************************)
Limb == 100 * 100

\* the double Infinity, where a number is a sequence of digits
Infinity == <<-1>>

RECURSIVE BigOf(_)
BigOf(n) == IF n = 0 THEN <<>> ELSE <<n % Limb>> \o BigOf(n \div Limb)

RECURSIVE BigToInt(_)
BigToInt(b) == IF b = <<>> THEN 0 ELSE Head(b) + Limb * BigToInt(Tail(b))

RECURSIVE BigMulCarry(_, _, _)
BigMulCarry(b, k, carry) ==
    IF b = <<>> THEN BigOf(carry)
    ELSE LET v == Head(b) * k + carry
         IN  <<v % Limb>> \o BigMulCarry(Tail(b), k, v \div Limb)

\* b * k for a small k (k < 100000)
BigMul(b, k) == IF k = 0 THEN <<>> ELSE BigMulCarry(b, k, 0)

RECURSIVE BigAddCarry(_, _, _)
BigAddCarry(a, b, carry) ==
    IF a = <<>> /\ b = <<>> THEN BigOf(carry)
    ELSE LET x == IF a = <<>> THEN 0 ELSE Head(a)
             y == IF b = <<>> THEN 0 ELSE Head(b)
             v == x + y + carry
         IN  <<v % Limb>> \o BigAddCarry(IF a = <<>> THEN a ELSE Tail(a),
                                         IF b = <<>> THEN b ELSE Tail(b),
                                         v \div Limb)

BigAdd(a, b) == BigAddCarry(a, b, 0)

RECURSIVE BigDivRem(_, _)
BigDivRem(b, d) ==
    IF b = <<>> THEN [q |-> <<>>, r |-> 0]
    ELSE LET rest == BigDivRem(Tail(b), d)
             cur  == rest.r * Limb + Head(b)
             qd   == cur \div d
         IN  [q |-> IF rest.q = <<>> /\ qd = 0 THEN <<>> ELSE <<qd>> \o rest.q,
              r |-> cur % d]

\* floor(b / d) for a small d (d < 100000)
BigDiv(b, d) == BigDivRem(b, d).q

RECURSIVE BigLess(_, _)
BigLess(a, b) ==
    IF Len(a) # Len(b) THEN Len(a) < Len(b)
    ELSE IF a = <<>> THEN FALSE
    ELSE LET n == Len(a)
         IN  IF a[n] # b[n] THEN a[n] < b[n]
             ELSE BigLess(SubSeq(a, 1, n - 1), SubSeq(b, 1, n - 1))

\* Math.round(num / den) for a positive small den: floor(num/den + 1/2)
BigRoundDiv(num, den) == BigDiv(BigAdd(BigMul(num, 2), BigOf(den)), 2 * den)

RECURSIVE BigPow(_, _)
BigPow(k, n) == IF n = 0 THEN BigOf(1) ELSE BigMul(BigPow(k, n - 1), k)

\* a < b for doubles that are numbers or Infinity
Less(a, b) == a # Infinity /\ (b = Infinity \/ BigLess(a, b))

\* The doubles end below 2^1024, and Math.pow(58, n) is Infinity when 58^n
\* reaches it: when n * log2(58) >= 1024.  log2(58) is 5.85798 (5858
\* thousandths), and no multiple of it is within 0.1 of 1024: 58^174 is
\* the last finite power.
Overflows(n) == n * 5858 >= 1024 * 1000

(***************************************************************************)
(* Pattern validation and difficulty estimate.                             *)
(***************************************************************************)
\* the character class of the validBase58 regular expression
Base58Alphabet ==
    {"1", "2", "3", "4", "5", "6", "7", "8", "9",
     "A", "B", "C", "D", "E", "F", "G", "H", "J", "K", "L", "M", "N",
     "P", "Q", "R", "S", "T", "U", "V", "W", "X", "Y", "Z",
     "a", "b", "c", "d", "e", "f", "g", "h", "i", "j", "k", "m",
     "n", "o", "p", "q", "r", "s", "t", "u", "v", "w", "x", "y", "z"}

\* the regular expression without its character class: /^.+$/
validBase58_AnySymbol(pattern) == Len(pattern) > 0

\* validBase58.test(pattern): one or more symbols, all of the class
validBase58(pattern) ==
    /\ Len(pattern) > 0
    /\ \A i \in 1..Len(pattern) : pattern[i] \in Base58Alphabet

\* thresholds are in seconds; the argument is estimatedAttempts, and
\* estimatedSeconds = estimatedAttempts / 1000
\* getDifficultyWarning with <= for < in its first comparison
getDifficultyWarning_Inclusive(estimatedAttempts) ==
    IF ~Less(<<0, 6>>, estimatedAttempts) THEN "easy"
    ELSE IF Less(estimatedAttempts, <<0, 30>>) THEN "medium"
    ELSE IF Less(estimatedAttempts, <<0, 180>>) THEN "hard"
    ELSE "extreme"

getDifficultyWarning(estimatedAttempts) ==
    IF Less(estimatedAttempts, <<0, 6>>) THEN "easy"
    ELSE IF Less(estimatedAttempts, <<0, 30>>) THEN "medium"
    ELSE IF Less(estimatedAttempts, <<0, 180>>) THEN "hard"
    ELSE "extreme"

\* formatTime(estimatedAttempts / 1000), a number and its unit
formatTime(ms) ==
    IF Less(ms, <<0, 6>>)
        THEN [n |-> BigRoundDiv(ms, 1000), unit |-> "s"]
    ELSE IF Less(ms, <<0, 360>>)
        THEN [n |-> BigRoundDiv(ms, 60000), unit |-> "m"]
    ELSE IF Less(ms, <<0, 8640>>)
        THEN [n |-> BigRoundDiv(BigDiv(ms, 1000), 3600), unit |-> "h"]
    ELSE IF ms # Infinity
        THEN [n |-> BigRoundDiv(BigDiv(ms, 1000), 86400), unit |-> "d"]
    ELSE [n |-> Infinity, unit |-> "d"]

\* calculateDifficulty with the factor ln 2 (in millionths) for 0.693
calculateDifficulty_Ln2(pattern, type) ==
    LET pow == BigPow(base58Chars, Len(pattern))
        len == IF type = "contains" THEN Len(pattern) ELSE 1
        infinite == Overflows(Len(pattern)) \/ len = 0
        num == IF infinite THEN <<1>> ELSE pow
        den == IF infinite THEN 0 ELSE len
        product == BigAdd(BigMul(BigMul(num, 693), 1000), BigMul(num, 147))
        estimatedAttempts ==
            IF infinite THEN Infinity
            ELSE BigDiv(BigDiv(BigAdd(BigMul(product, 2),
                                      BigMul(BigOf(1000 * den), 1000)),
                               2000 * den), 1000)
    IN  [difficulty        |-> [num |-> num, den |-> den],
         estimatedAttempts |-> estimatedAttempts,
         estimatedTime     |-> formatTime(estimatedAttempts),
         warningLevel      |-> getDifficultyWarning(estimatedAttempts)]

\* calculateDifficulty multiplying by pattern.length for 'contains'
calculateDifficulty_ContainsHarder(pattern, type) ==
    LET pow == BigPow(base58Chars, Len(pattern))
        len == IF type = "contains" THEN Len(pattern) ELSE 1
        infinite == Overflows(Len(pattern))
        num == IF infinite THEN <<1>> ELSE BigMul(pow, len)
        den == IF infinite THEN 0 ELSE 1
        estimatedAttempts ==
            IF infinite THEN Infinity
            ELSE BigDiv(BigAdd(BigMul(num, 2 * 693), BigOf(1000)), 2000)
    IN  [difficulty        |-> [num |-> num, den |-> den],
         estimatedAttempts |-> estimatedAttempts,
         estimatedTime     |-> formatTime(estimatedAttempts),
         warningLevel      |-> getDifficultyWarning(estimatedAttempts)]

\* the difficulty is the quotient num / den (den = pattern.length for
\* 'contains', 1 otherwise), Infinity being 1 / 0: Math.pow overflows for
\* a long pattern, and the quotient of the empty pattern is 1 / 0
calculateDifficulty(pattern, type) ==
    LET pow == BigPow(base58Chars, Len(pattern))
        len == IF type = "contains" THEN Len(pattern) ELSE 1
        infinite == Overflows(Len(pattern)) \/ len = 0
        num == IF infinite THEN <<1>> ELSE pow
        den == IF infinite THEN 0 ELSE len
        estimatedAttempts ==
            IF infinite THEN Infinity
            ELSE BigDiv(BigAdd(BigMul(num, 2 * 693), BigOf(1000 * den)),
                        2000 * den)
    IN  [difficulty        |-> [num |-> num, den |-> den],
         estimatedAttempts |-> estimatedAttempts,
         estimatedTime     |-> formatTime(estimatedAttempts),
         warningLevel      |-> getDifficultyWarning(estimatedAttempts)]

NoDifficulty == [warningLevel |-> "none"]

validatePatternBody(pattern, type) ==
    IF Len(pattern) = 0
    THEN [valid |-> FALSE, errors |-> <<"empty">>, difficulty |-> NoDifficulty]
    ELSE LET difficulty == calculateDifficulty(pattern, type)
             errors ==
                 (IF Len(pattern) > maxPatternLength THEN <<"too long">> ELSE <<>>)
                 \o (IF ~validBase58(pattern) THEN <<"invalid characters">> ELSE <<>>)
                 \o (IF difficulty.warningLevel = "extreme"
                     THEN <<"extremely difficult">> ELSE <<>>)
         IN  [valid |-> Len(errors) = 0, errors |-> errors,
              difficulty |-> difficulty]

\* patterns and types the manager model is started with: a valid one, the
\* empty one, one with a symbol outside the alphabet, an 'extreme' one
StartPatterns == {<<"A">>, <<>>, <<"0">>, <<"A", "B", "C", "D">>}
StartTypes == {"prefix"}

\* validatePattern is a pure function: its values on the inputs of the
\* manager model are computed once and looked up
Validated ==
    {[in |-> in, out |-> validatePatternBody(in[1], in[2])] :
        in \in StartPatterns \X StartTypes}

validatePattern(pattern, type) ==
    IF <<pattern, type>> \in StartPatterns \X StartTypes
    THEN (CHOOSE r \in Validated : r.in = <<pattern, type>>).out
    ELSE validatePatternBody(pattern, type)

\* the inputs of the manager model that pass validation
ValidStarts ==
    {in \in StartPatterns \X StartTypes : validatePattern(in[1], in[2]).valid}


(***************************************************************************)
(* State.                                                                  *)
(***************************************************************************)
VARIABLES
    activeJobs,   \* this.activeJobs: userId -> job info, NoJob when absent
    jobCount,     \* number of jobs created so far; job j is the j-th
    workers,      \* per job: the worker thread and its port to the manager
    timers,       \* per job: the setTimeout handle of startGeneration
    notes,        \* per job: telegramBot.sendMessage calls its events caused
    persisted,    \* jobs whose result record reached a caller or a store
    lastOp,       \* the operation of the last step and what it returned
    notifier,     \* whether the Telegram API delivers what telegramBot sends
    lastReturn,   \* what startGeneration or getStatus returned last
    now,          \* Date.now(), in milliseconds since the manager was made
    run,          \* worker model: one run of vanityWorker.js
    vInput,       \* validation model: the (pattern, type) under test
    vResult       \* validation model: what validatePattern returned

vars == <<activeJobs, jobCount, workers, timers, notes, persisted, lastOp,
          notifier, lastReturn, now, run, vInput, vResult>>

managerVars == <<activeJobs, jobCount, workers, timers, notes, persisted, lastOp,
                 notifier, lastReturn, now>>

\* requesters, in the order in which they first appear
UserOrder == <<"u1", "u2", "u3", "u4">>
Users == {UserOrder[i] : i \in 1..Len(UserOrder)}
\* job j is the j-th job created; no behaviour creates more than these
Jobs == 1..(MaxJobs + MaxAdmitted + MaxSlots + MaxReporting + MaxNotified
            + MaxViewed)
MatchTypes == {"prefix", "suffix", "contains"}

\* worker is the handle of the worker of the job: job j has worker j
NoJob == [jobId |-> 0, worker |-> 0]
NoUser == "nobody"

\* jobId is the workerData.jobId the thread was made with
NoWorker == [owner |-> NoUser, state |-> "none", attempts |-> 0, port |-> <<>>,
             jobId |-> 0]

\* the result of a 'success' message: w stands for the address, the keys
\* and the mnemonic of the wallet found (the manager model names a wallet
\* by the job whose worker found it, the worker model by its address)
Wallet(w, attempts) ==
    [address |-> w, publicKey |-> w, privateKey |-> w, mnemonic |-> w,
     attempts |-> attempts]
\* messages of the other types have no result
NoWallet == [address |-> 0]

Op(op, user, job, result) ==
    [op |-> op, user |-> user, job |-> job, result |-> result]

NoOp == Op("none", NoUser, 0, "")

Manager == [activeJobs |-> activeJobs, workers |-> workers,
            timers |-> timers, notes |-> notes, notifier |-> notifier,
            now |-> now]

\* a delivered notification without an attempt count
Note(kind, reason) ==
    [kind |-> kind, reason |-> reason, attempts |-> 0, delivered |-> TRUE]

ActiveUsers(jobs) == {u \in Users : jobs[u] # NoJob}

(***************************************************************************)
(* Collaborators: worker handle, timer, notifier.                          *)
(***************************************************************************)
\* a terminate() that leaves the thread running
terminate_Ignored(s, j, race) == s

\* worker.terminate(): a running thread is torn down and exits with code 1;
\* a thread that has posted its terminal message is already returning, and
\* terminate() either still catches it (race) or finds it gone (exit code 0)
terminate(s, j, race) ==
    LET st == s.workers[j].state
        new == CASE st = "running" -> "dying"
                 [] st = "finished" -> IF race THEN "dying" ELSE "finished"
                 [] OTHER -> st
    IN  [s EXCEPT !.workers[j].state = new]

\* a cleanupJob that leaves the timeout armed
clearTimeout_Skipped(s, j) == s

clearTimeout(s, j) ==
    [s EXCEPT !.timers[j] = IF @ = "armed" THEN "cleared" ELSE @]

\* telegramBot.sendMessage(userId, text), recorded with job j: the text is
\* one of four templates (kind) around a reason or an attempt count.  The
\* call returns a promise that no caller awaits or catches: when the
\* Telegram API is down the promise is rejected and the caller runs on.
sendMessage(s, j, kind, reason, attempts) ==
    [s EXCEPT !.notes[j] = Append(@, [kind |-> kind, reason |-> reason,
                                      attempts |-> attempts,
                                      delivered |-> s.notifier = "up"])]

(***************************************************************************)
(* VanityService methods, as functions of the manager state.               *)
(***************************************************************************)
\* cleanupJob without this.activeJobs.delete(userId)
cleanupJob_NoDelete(s, userId, race) ==
    LET jobInfo == s.activeJobs[userId]
    IN  IF jobInfo = NoJob THEN s
        ELSE terminate(clearTimeout(s, jobInfo.timeout), jobInfo.worker, race)

\* cleanupJob without clearTimeout(jobInfo.timeout)
cleanupJob_KeepTimer(s, userId, race) ==
    LET jobInfo == s.activeJobs[userId]
    IN  IF jobInfo = NoJob THEN s
        ELSE [terminate(s, jobInfo.worker, race)
                 EXCEPT !.activeJobs[userId] = NoJob]

cleanupJob(s, userId, race) ==
    LET jobInfo == s.activeJobs[userId]
    IN  IF jobInfo = NoJob THEN s
        ELSE LET s1 == clearTimeout(s, jobInfo.timeout)
                 s2 == terminate(s1, jobInfo.worker, race)
             IN  [s2 EXCEPT !.activeJobs[userId] = NoJob]

\* handleWorkerError awaiting the delivery of its text before it cleans up
handleWorkerError_AwaitsDelivery(s, userId, src, reason, race) ==
    LET sent == sendMessage(s, src, "error", reason, 0)
    IN  IF s.notifier = "up" THEN cleanupJob(sent, userId, race) ELSE sent

\* handleWorkerError sending the header of its text without error.message
handleWorkerError_NoReason(s, userId, src, reason, race) ==
    cleanupJob(sendMessage(s, src, "error", "", 0), userId, race)

\* src is the job whose worker raised the event
handleWorkerError(s, userId, src, reason, race) ==
    cleanupJob(sendMessage(s, src, "error", reason, 0), userId, race)

\* handleProgress with > for >= in its comparison
handleProgress_StrictlyMore(s, userId, src, message) ==
    LET jobInfo == s.activeJobs[userId]
    IN  IF jobInfo = NoJob THEN s
        ELSE IF message.attempts - jobInfo.lastProgress > NOTIFY_INTERVAL
        THEN [sendMessage(s, jobInfo.worker, "progress", "", message.attempts)
                 EXCEPT !.activeJobs[userId].lastProgress = message.attempts]
        ELSE s

\* handleProgress replacing the estimate of the job by the attempts made
handleProgress_Reestimates(s, userId, src, message) ==
    LET jobInfo == s.activeJobs[userId]
        left == [jobInfo.difficulty EXCEPT
                    !.estimatedAttempts = BigOf(message.attempts)]
    IN  IF jobInfo = NoJob THEN s
        ELSE IF message.attempts - jobInfo.lastProgress >= NOTIFY_INTERVAL
        THEN [sendMessage(s, jobInfo.worker, "progress", "", message.attempts)
                 EXCEPT !.activeJobs[userId].lastProgress = message.attempts,
                        !.activeJobs[userId].difficulty = left]
        ELSE [s EXCEPT !.activeJobs[userId].difficulty = left]

\* the text names jobInfo.pattern: the notification is about the job of the
\* entry
handleProgress(s, userId, src, message) ==
    LET jobInfo == s.activeJobs[userId]
    IN  IF jobInfo = NoJob THEN s
        ELSE IF message.attempts - jobInfo.lastProgress >= NOTIFY_INTERVAL
        THEN [sendMessage(s, jobInfo.worker, "progress", "", message.attempts)
                 EXCEPT !.activeJobs[userId].lastProgress = message.attempts]
        ELSE s

\* handleSuccess storing message.result on the job instead of cleaning up
handleSuccess_KeepsResult(s, userId, src, message, race) ==
    LET jobInfo == s.activeJobs[userId]
    IN  IF jobInfo = NoJob THEN [state |-> s, saved |-> {}]
        ELSE [state |-> [sendMessage(s, src, "success", "", 0)
                            EXCEPT !.activeJobs[userId] =
                                       jobInfo @@ [result |-> message.result]],
              saved |-> {src}]

\* returns the new manager state and the record 'for saving to database';
\* the text it sends quotes result.address and result.attempts, and
\* message.result is a local of the call
handleSuccess(s, userId, src, message, race) ==
    LET jobInfo == s.activeJobs[userId]
    IN  IF jobInfo = NoJob THEN [state |-> s, saved |-> {}]
        ELSE [state |-> cleanupJob(sendMessage(s, src, "success", "", 0),
                                   userId, race),
              saved |-> {src}]

\* the switch calls handleSuccess as a statement: its return value is dropped
handleWorkerMessage(s, userId, src, message, race) ==
    IF s.activeJobs[userId] = NoJob THEN s
    ELSE CASE message.type = "progress" ->
                  handleProgress(s, userId, src, message)
           [] message.type = "success" ->
                  handleSuccess(s, userId, src, message, race).state
           [] message.type = "error" ->
                  handleWorkerError(s, userId, src, message.error, race)
           [] OTHER -> s

\* cancelGeneration that leaves the removal to the exit handler of the worker
cancelGeneration_NoCleanup(s, userId, reason, race) ==
    LET jobInfo == s.activeJobs[userId]
    IN  IF jobInfo = NoJob THEN [state |-> s, ret |-> "false"]
        ELSE LET s1 == terminate(s, jobInfo.worker, race)
             IN  [state |-> sendMessage(s1, jobInfo.worker, "cancelled", reason, 0),
                  ret |-> "true"]

\* cancelGeneration sending its text before it looks for the job
cancelGeneration_NotifyFirst(s, userId, reason, race) ==
    LET jobInfo == s.activeJobs[userId]
    IN  IF jobInfo = NoJob
        THEN [state |-> sendMessage(s, 1, "cancelled", reason, 0), ret |-> "false"]
        ELSE LET s1 == terminate(s, jobInfo.worker, race)
                 s2 == sendMessage(s1, jobInfo.worker, "cancelled", reason, 0)
             IN  [state |-> cleanupJob(s2, userId, race), ret |-> "true"]

cancelGeneration(s, userId, reason, race) ==
    LET jobInfo == s.activeJobs[userId]
    IN  IF jobInfo = NoJob THEN [state |-> s, ret |-> "false"]
        ELSE LET s1 == terminate(s, jobInfo.worker, race)
                 s2 == sendMessage(s1, jobInfo.worker, "cancelled", reason, 0)
             IN  [state |-> cleanupJob(s2, userId, race), ret |-> "true"]

\* startGeneration validating the pattern before its other checks
StartResult_ValidatesFirst(jobs, userId, pattern, type) ==
    IF ~validatePattern(pattern, type).valid THEN "InvalidPattern"
    ELSE IF jobs[userId] # NoJob THEN "AlreadyActive"
    ELSE IF Cardinality(ActiveUsers(jobs)) >= maxConcurrentJobs
        THEN "ConcurrencyLimitReached"
    ELSE "Started"

\* startGeneration without the activeJobs.has(userId) check
StartResult_NoActiveCheck(jobs, userId, pattern, type) ==
    IF Cardinality(ActiveUsers(jobs)) >= maxConcurrentJobs
        THEN "ConcurrencyLimitReached"
    ELSE IF ~validatePattern(pattern, type).valid THEN "InvalidPattern"
    ELSE "Started"

\* startGeneration with size > maxConcurrentJobs for size >= maxConcurrentJobs
StartResult_OffByOne(jobs, userId, pattern, type) ==
    IF jobs[userId] # NoJob THEN "AlreadyActive"
    ELSE IF Cardinality(ActiveUsers(jobs)) > maxConcurrentJobs
        THEN "ConcurrencyLimitReached"
    ELSE IF ~validatePattern(pattern, type).valid THEN "InvalidPattern"
    ELSE "Started"

\* the checks of startGeneration, in the order of the code
StartResult(jobs, userId, pattern, type) ==
    IF jobs[userId] # NoJob THEN "AlreadyActive"
    ELSE IF Cardinality(ActiveUsers(jobs)) >= maxConcurrentJobs
        THEN "ConcurrencyLimitReached"
    ELSE IF ~validatePattern(pattern, type).valid THEN "InvalidPattern"
    ELSE "Started"

\* the start of a job without the setTimeout call
registerJob_NoTimeout(s, userId, pattern, type, j, jobId) ==
    LET jobInfo == [jobId |-> jobId, userId |-> userId, pattern |-> pattern,
                    type |-> type, worker |-> j, startTime |-> s.now,
                    lastProgress |-> 0,
                    difficulty |-> validatePattern(pattern, type).difficulty,
                    timeout |-> j]
    IN  [s EXCEPT !.workers[j] = [owner |-> userId, state |-> "running",
                                  attempts |-> 0, port |-> <<>>,
                                  jobId |-> jobId],
                  !.activeJobs[userId] = jobInfo]

\* the state after a start that passed the checks: the j-th job, with the
\* identifier jobId drawn for it, its worker and its timeout
registerJob(s, userId, pattern, type, j, jobId) ==
    LET jobInfo == [jobId |-> jobId, userId |-> userId, pattern |-> pattern,
                    type |-> type, worker |-> j, startTime |-> s.now,
                    lastProgress |-> 0,
                    difficulty |-> validatePattern(pattern, type).difficulty,
                    timeout |-> j]
    IN  [s EXCEPT !.workers[j] = [owner |-> userId, state |-> "running",
                                  attempts |-> 0, port |-> <<>>,
                                  jobId |-> jobId],
                  !.timers[j] = "armed",
                  !.activeJobs[userId] = jobInfo]

\* startGeneration creating the worker and the job before its checks
startGeneration_RegisterFirst(s, userId, pattern, type, j, jobId) ==
    registerJob(s, userId, pattern, type, j, jobId)

startGeneration(s, userId, pattern, type, j, jobId) ==
    IF StartResult(s.activeJobs, userId, pattern, type) = "Started"
    THEN registerJob(s, userId, pattern, type, j, jobId)
    ELSE s

\* the text of getStartMessage: a template around these values
getStartMessage(pattern, type, difficulty) ==
    [pattern |-> pattern, type |-> type,
     warningLevel |-> difficulty.warningLevel,
     estimatedTime |-> difficulty.estimatedTime,
     estimatedAttempts |-> difficulty.estimatedAttempts]

\* what a startGeneration that passed its checks returns
startGenerationReturn(pattern, type, jobId) ==
    LET validation == validatePattern(pattern, type)
    IN  [jobId |-> jobId,
         difficulty |-> validation.difficulty,
         startMessage |-> getStartMessage(pattern, type, validation.difficulty)]

\* getStatus returns null for a requester without a job
Null == [null |-> TRUE]

getStatus(s, userId) ==
    LET jobInfo == s.activeJobs[userId]
    IN  IF jobInfo = NoJob THEN Null
        ELSE [pattern |-> jobInfo.pattern,
              type |-> jobInfo.type,
              elapsed |-> formatTime(BigOf(s.now - jobInfo.startTime)),
              difficulty |-> jobInfo.difficulty]


(***************************************************************************)
(* The manager and its workers as a state machine.                         *)
(***************************************************************************)
NoInput == [pattern |-> <<>>, type |-> "none"]
\* no call has returned a record yet
NoReturn == [nothing |-> TRUE]
\* no worker run is under observation
NoRun == [state |-> "none"]
NoResult == [valid |-> FALSE, errors |-> <<"not run">>, difficulty |-> NoDifficulty]

Init ==
    /\ activeJobs = [u \in Users |-> NoJob]
    /\ jobCount = 0
    /\ workers = [j \in Jobs |-> NoWorker]
    /\ timers = [j \in Jobs |-> "none"]
    /\ notes = [j \in Jobs |-> <<>>]
    /\ persisted = {}
    /\ lastOp = NoOp
    /\ notifier = "up"
    /\ lastReturn = NoReturn
    /\ now = 0
    /\ run = NoRun
    /\ vInput = NoInput
    /\ vResult = NoResult

Apply(s) ==
    /\ activeJobs' = s.activeJobs
    /\ workers' = s.workers
    /\ timers' = s.timers
    /\ notes' = s.notes

\* a caller invokes startGeneration(userId, pattern, type, bot); at most
\* limit jobs are created in one behaviour, and jobIds is the set of the
\* values crypto.randomBytes(8).toString('hex') can take in the call
StartDrawing(userId, pattern, type, limit, jobIds) ==
    /\ LET r == StartResult(activeJobs, userId, pattern, type)
           j == jobCount + 1
       IN  /\ r = "Started" => jobCount < limit
           /\ \E jobId \in jobIds :
                 /\ Apply(startGeneration(Manager, userId, pattern, type, j, jobId))
                 /\ lastReturn' = IF r = "Started"
                                  THEN startGenerationReturn(pattern, type, jobId)
                                  ELSE lastReturn
           /\ jobCount' = IF r = "Started" THEN j ELSE jobCount
           /\ lastOp' = Op("start", userId, IF r = "Started" THEN j ELSE 0, r)
    /\ UNCHANGED <<persisted, notifier, now, run, vResult>>

\* The manager stores a jobId and returns it, and never reads one: what it
\* does is the same for every value drawn.  Where the values do not
\* matter, the j-th job is given the value j.
Start(userId, pattern, type, limit) ==
    /\ StartDrawing(userId, pattern, type, limit, {jobCount + 1})
    /\ UNCHANGED vInput

\* the same call, with its pattern and type kept for the properties
StartNoted(userId, pattern, type, limit) ==
    /\ StartDrawing(userId, pattern, type, limit, {jobCount + 1})
    /\ vInput' = [pattern |-> pattern, type |-> type]

\* a caller invokes getStatus(userId)
Status(userId) ==
    /\ lastReturn' = getStatus(Manager, userId)
    /\ lastOp' = Op("status", userId, activeJobs[userId].worker,
                    IF activeJobs[userId] = NoJob THEN "null" ELSE "view")
    /\ UNCHANGED <<activeJobs, jobCount, workers, timers, notes, persisted,
                   notifier, now, run, vInput, vResult>>

\* time passes: Date.now() advances by TickMs
Tick ==
    /\ now + TickMs <= MaxTicks * TickMs
    /\ now' = now + TickMs
    /\ lastOp' = Op("tick", NoUser, 0, "")
    /\ UNCHANGED <<activeJobs, jobCount, workers, timers, notes, persisted,
                   notifier, lastReturn, run, vInput, vResult>>

\* a caller invokes cancelGeneration(userId, 'Cancelled by user', bot)
Cancel(userId) ==
    /\ \E race \in BOOLEAN :
          LET c == cancelGeneration(Manager, userId, "Cancelled by user", race)
          IN  /\ Apply(c.state)
              /\ lastOp' = Op("cancel", userId, activeJobs[userId].worker, c.ret)
    /\ UNCHANGED <<jobCount, persisted, notifier, lastReturn, now, run, vInput, vResult>>

\* a setTimeout callback that does not call cancelGeneration
TimeoutFire_NoCancel(j) ==
    /\ timers[j] = "armed"
    /\ timers' = [timers EXCEPT ![j] = "fired"]
    /\ lastOp' = Op("timeout", workers[j].owner, j, "false")
    /\ UNCHANGED <<activeJobs, workers, notes, jobCount, persisted, notifier,
                   lastReturn, now, run, vInput, vResult>>

\* the setTimeout callback of job j runs
TimeoutFire(j) ==
    /\ timers[j] = "armed"
    /\ \E race \in BOOLEAN :
          LET userId == workers[j].owner
              fired == [Manager EXCEPT !.timers[j] = "fired"]
              c == cancelGeneration(fired, userId,
                                    "Generation timed out after 30 minutes", race)
          IN  /\ Apply(c.state)
              /\ lastOp' = Op("timeout", userId, j, c.ret)
    /\ UNCHANGED <<jobCount, persisted, notifier, lastReturn, now, run, vInput, vResult>>

\* the worker of job j makes PROGRESS_INTERVAL attempts without a match and
\* posts 'progress' with its attempt count
WorkerProgress(j) ==
    /\ workers[j].state = "running"
    /\ workers[j].attempts + PROGRESS_INTERVAL <= MaxAttempts
    /\ Len(workers[j].port) < MaxPending
    /\ LET attempts == workers[j].attempts + PROGRESS_INTERVAL
       IN  workers' = [workers EXCEPT
               ![j].attempts = attempts,
               ![j].port = Append(@, [type |-> "progress",
                                      attempts |-> attempts, error |-> "",
                                      result |-> NoWallet])]
    /\ lastOp' = Op("worker", workers[j].owner, j, "progress")
    /\ UNCHANGED <<activeJobs, jobCount, timers, notes, persisted, notifier, lastReturn, now, run, vInput, vResult>>

\* the next attempt of the worker of job j matches: it posts 'success' and
\* returns
WorkerSuccess(j) ==
    /\ workers[j].state = "running"
    /\ LET attempts == workers[j].attempts + 1
       IN  workers' = [workers EXCEPT
               ![j].attempts = attempts,
               ![j].state = "finished",
               ![j].port = Append(@, [type |-> "success",
                                      attempts |-> attempts, error |-> "",
                                      result |-> Wallet(j, attempts)])]
    /\ lastOp' = Op("worker", workers[j].owner, j, "success")
    /\ UNCHANGED <<activeJobs, jobCount, timers, notes, persisted, notifier, lastReturn, now, run, vInput, vResult>>

\* the next attempt of the worker of job j throws inside the try block: the
\* catch clause posts 'error' and the function returns
WorkerFault(j) ==
    /\ workers[j].state = "running"
    /\ workers' = [workers EXCEPT
           ![j].state = "finished",
           ![j].port = Append(@, [type |-> "error", attempts |-> 0,
                                  error |-> "fault", result |-> NoWallet])]
    /\ lastOp' = Op("worker", workers[j].owner, j, "error")
    /\ UNCHANGED <<activeJobs, jobCount, timers, notes, persisted, notifier, lastReturn, now, run, vInput, vResult>>

\* the worker of job j finds no match in any of its remaining attempts: the
\* loop ends at MAX_ATTEMPTS, the worker posts 'error' and returns
WorkerExhausted(j) ==
    /\ workers[j].state = "running"
    /\ workers[j].attempts < MAX_ATTEMPTS
    /\ workers' = [workers EXCEPT
           ![j].attempts = MAX_ATTEMPTS,
           ![j].state = "finished",
           ![j].port = Append(@, [type |-> "error", attempts |-> 0,
                                  error |-> "max attempts",
                                  result |-> NoWallet])]
    /\ lastOp' = Op("worker", workers[j].owner, j, "exhausted")
    /\ UNCHANGED <<activeJobs, jobCount, timers, notes, persisted, notifier, lastReturn, now, run, vInput, vResult>>

\* the worker thread of job j dies of an uncaught exception
WorkerCrash(j) ==
    /\ workers[j].state = "running"
    /\ workers' = [workers EXCEPT ![j].state = "crashed"]
    /\ lastOp' = Op("worker", workers[j].owner, j, "crash")
    /\ UNCHANGED <<activeJobs, jobCount, timers, notes, persisted, notifier, lastReturn, now, run, vInput, vResult>>

\* the thread of job j's worker ends with a non-zero exit code and without
\* an 'error' event.  vanityWorker.js has no statement that does it; the
\* exit handler of the manager provides for it, and the model of the exit
\* handler lets it happen.
WorkerKilled(j) ==
    /\ workers[j].state = "running"
    /\ workers' = [workers EXCEPT ![j].state = "dying"]
    /\ lastOp' = Op("worker", workers[j].owner, j, "killed")
    /\ UNCHANGED <<activeJobs, jobCount, timers, notes, persisted, notifier, lastReturn, now, run, vInput, vResult>>

\* the thread of job j's worker ends with exit code 0 and without a
\* terminal message, as after process.exit(0); the same remark applies
WorkerQuits(j) ==
    /\ workers[j].state = "running"
    /\ workers' = [workers EXCEPT ![j].state = "finished"]
    /\ lastOp' = Op("worker", workers[j].owner, j, "quit")
    /\ UNCHANGED <<activeJobs, jobCount, timers, notes, persisted, notifier, lastReturn, now, run, vInput, vResult>>

\* worker.on('message') of job j's worker: the oldest message on the port
OnMessage(j) ==
    /\ workers[j].state \notin {"none", "exited"}
    /\ workers[j].port # <<>>
    /\ \E race \in BOOLEAN :
          LET userId == workers[j].owner
              message == Head(workers[j].port)
              taken == [Manager EXCEPT !.workers[j].port = Tail(@)]
          IN  /\ Apply(handleWorkerMessage(taken, userId, j, message, race))
              /\ lastOp' = Op("message", userId, j, message.type)
    /\ UNCHANGED <<jobCount, persisted, notifier, lastReturn, now, run, vInput, vResult>>

\* worker.on('error') of job j's worker, after an uncaught exception
OnError(j) ==
    /\ workers[j].state = "crashed"
    /\ \E race \in BOOLEAN :
          LET userId == workers[j].owner
              seen == [Manager EXCEPT !.workers[j].state = "dying"]
          IN  /\ Apply(handleWorkerError(seen, userId, j, "uncaught", race))
              /\ lastOp' = Op("error", userId, j, "")
    /\ UNCHANGED <<jobCount, persisted, notifier, lastReturn, now, run, vInput, vResult>>

\* worker.on('exit') of job j's worker: the last event of a worker, emitted
\* once its port is drained; the exit code is 0 for a thread that returned
\* and 1 for one that was terminated or died
OnExit(j) ==
    /\ workers[j].state \in {"finished", "dying"}
    /\ workers[j].port = <<>>
    /\ \E race \in BOOLEAN :
          LET userId == workers[j].owner
              code == IF workers[j].state = "finished" THEN 0 ELSE 1
              gone == [Manager EXCEPT !.workers[j].state = "exited"]
          IN  /\ Apply(IF code # 0
                       THEN handleWorkerError(gone, userId, j, "exit code", race)
                       ELSE gone)
              /\ lastOp' = Op("exit", userId, j, IF code = 0 THEN "0" ELSE "1")
    /\ UNCHANGED <<jobCount, persisted, notifier, lastReturn, now, run, vInput, vResult>>

\* the Telegram API becomes unreachable, or reachable again
NotifierChange ==
    /\ notifier' = IF notifier = "up" THEN "down" ELSE "up"
    /\ lastOp' = Op("notifier", NoUser, 0, notifier')
    /\ UNCHANGED <<activeJobs, jobCount, workers, timers, notes, persisted,
                   lastReturn, now, run, vInput, vResult>>

\* The manager uses a user id only as a key of activeJobs, so requesters
\* are interchangeable: the callers are those who started a job before and
\* one newcomer, the first of UserOrder who did not.
Known == {workers[j].owner : j \in 1..jobCount}
Callers ==
    LET fresh == {i \in 1..Len(UserOrder) : UserOrder[i] \notin Known}
    IN  Known \cup {UserOrder[i] : i \in {k \in fresh : \A m \in fresh : k <= m}}

Next ==
    \/ \E u \in Callers, p \in StartPatterns, t \in StartTypes :
          Start(u, p, t, MaxJobs)
    \/ \E u \in Callers : Cancel(u)
    \/ \E j \in Jobs : TimeoutFire(j)
    \/ \E j \in Jobs : WorkerSuccess(j)
    \/ \E j \in Jobs : WorkerFault(j)
    \/ \E j \in Jobs : WorkerExhausted(j)
    \/ \E j \in Jobs : WorkerCrash(j)
    \/ \E j \in Jobs : OnMessage(j)
    \/ \E j \in Jobs : OnError(j)
    \/ \E j \in Jobs : OnExit(j)

Spec == Init /\ [][Next]_vars

\* The event loop runs the callback of an armed timer once its delay
\* (maxGenerationTime) has passed.
SpecDeadline == Init /\ [][Next]_vars /\ \A j \in Jobs : WF_vars(TimeoutFire(j))

\* Admission control among four requesters; jobs end by cancel, by their
\* timeout and by the exit event of their worker.
NextAdmission ==
    \/ \E u \in Callers, p \in StartPatterns, t \in StartTypes :
          Start(u, p, t, MaxAdmitted)
    \/ \E u \in Callers : Cancel(u)
    \/ \E j \in Jobs : TimeoutFire(j)
    \/ \E j \in Jobs : OnExit(j)

SpecAdmission == Init /\ [][NextAdmission]_vars

\* The slots of the active table: as NextAdmission, and workers succeed.
NextSlots ==
    \/ \E u \in Callers, p \in StartPatterns, t \in StartTypes :
          Start(u, p, t, MaxSlots)
    \/ \E u \in Callers : Cancel(u)
    \/ \E j \in Jobs : TimeoutFire(j)
    \/ \E j \in Jobs : WorkerSuccess(j)
    \/ \E j \in Jobs : OnMessage(j)
    \/ \E j \in Jobs : OnExit(j)

SpecSlots == Init /\ [][NextSlots]_vars

\* Progress reports: the jobs of one requester, whose workers report every
\* PROGRESS_INTERVAL attempts; a job ends by cancel or by success.
NextProgress ==
    \/ \E in \in ValidStarts : Start(UserOrder[1], in[1], in[2], MaxReporting)
    \/ Cancel(UserOrder[1])
    \/ \E j \in Jobs : WorkerProgress(j)
    \/ \E j \in Jobs : WorkerSuccess(j)
    \/ \E j \in Jobs : OnMessage(j)
    \/ \E j \in Jobs : OnExit(j)

SpecProgress == Init /\ [][NextProgress]_vars

\* The notifier: one job with every event of its worker, while the Telegram
\* API comes and goes.
NextNotifier ==
    \/ \E in \in ValidStarts : Start(UserOrder[1], in[1], in[2], MaxNotified)
    \/ Cancel(UserOrder[1])
    \/ \E j \in Jobs : TimeoutFire(j)
    \/ \E j \in Jobs : WorkerProgress(j)
    \/ \E j \in Jobs : WorkerSuccess(j)
    \/ \E j \in Jobs : WorkerFault(j)
    \/ \E j \in Jobs : WorkerCrash(j)
    \/ \E j \in Jobs : OnMessage(j)
    \/ \E j \in Jobs : OnError(j)
    \/ \E j \in Jobs : OnExit(j)
    \/ NotifierChange

SpecNotifier == Init /\ [][NextNotifier]_vars

\* Status queries: requesters start and cancel jobs and ask for their
\* status while time passes and workers report progress.
NextStatus ==
    \/ \E u \in Callers, in \in ValidStarts : Start(u, in[1], in[2], MaxViewed)
    \/ \E u \in Callers : Cancel(u)
    \/ \E u \in Callers : Status(u)
    \/ \E j \in Jobs : OnExit(j)
    \/ Tick

SpecStatus == Init /\ [][NextStatus]_vars

\* The record of a job: one requester starts jobs of different difficulty,
\* asks for their status and cancels them while their workers report
\* progress.
RecordStarts == {<<<<"A">>, "prefix">>, <<<<"A", "b", "C">>, "contains">>}

NextRecord ==
    \/ \E in \in RecordStarts : Start(UserOrder[1], in[1], in[2], MaxViewed)
    \/ Cancel(UserOrder[1])
    \/ Status(UserOrder[1])
    \/ \E j \in Jobs : WorkerProgress(j)
    \/ \E j \in Jobs : OnMessage(j)
    \/ \E j \in Jobs : OnExit(j)

SpecRecord == Init /\ [][NextRecord]_vars

\* The end of a worker thread: the jobs of one requester, whose workers die
\* of an exception or end with either exit code and without a message.
NextWorkerEnd ==
    \/ \E in \in ValidStarts : Start(UserOrder[1], in[1], in[2], MaxJobs)
    \/ Cancel(UserOrder[1])
    \/ \E j \in Jobs : TimeoutFire(j)
    \/ \E j \in Jobs : WorkerCrash(j)
    \/ \E j \in Jobs : WorkerKilled(j)
    \/ \E j \in Jobs : WorkerQuits(j)
    \/ \E j \in Jobs : OnError(j)
    \/ \E j \in Jobs : OnExit(j)

SpecWorkerEnd == Init /\ [][NextWorkerEnd]_vars

\* The order of the checks of startGeneration: as NextAdmission without the
\* timeouts, and the input of each call is kept.
NextOrder ==
    \/ \E u \in Callers, p \in StartPatterns, t \in StartTypes :
          StartNoted(u, p, t, MaxAdmitted)
    \/ \E u \in Callers : Cancel(u)
    \/ \E j \in Jobs : OnExit(j)

SpecOrder == Init /\ [][NextOrder]_vars

\* Job identifiers: requesters start and cancel jobs, and each job is
\* given a value drawn by crypto.randomBytes(8).toString('hex').
JobIdValues == 1..MaxJobIds

NextIds ==
    \/ \E u \in Callers, in \in ValidStarts :
          StartDrawing(u, in[1], in[2], MaxDrawn, JobIdValues) /\ UNCHANGED vInput
    \/ \E u \in Callers : Cancel(u)
    \/ \E j \in Jobs : OnExit(j)

SpecIds == Init /\ [][NextIds]_vars

(***************************************************************************)
(* validatePattern as a function of its inputs.                            *)
(***************************************************************************)
\* symbols of the patterns under test: two of the alphabet, one outside it
TestSymbols == {"A", "z", "0"}
AllTypes == MatchTypes \cup {"other"}

RECURSIVE PatternsUpTo(_)
PatternsUpTo(n) ==
    IF n = 0 THEN {<<>>}
    ELSE LET shorter == PatternsUpTo(n - 1)
         IN  shorter \cup {Append(p, c) : p \in {q \in shorter : Len(q) = n - 1},
                                          c \in TestSymbols}

InitValidate ==
    /\ activeJobs = [u \in Users |-> NoJob]
    /\ jobCount = 0
    /\ workers = [j \in Jobs |-> NoWorker]
    /\ timers = [j \in Jobs |-> "none"]
    /\ notes = [j \in Jobs |-> <<>>]
    /\ persisted = {}
    /\ lastOp = NoOp
    /\ notifier = "up"
    /\ lastReturn = NoReturn
    /\ now = 0
    /\ run = NoRun
    /\ vInput \in [pattern : PatternsUpTo(MaxLen), type : AllTypes]
    /\ vResult = NoResult

Validate ==
    /\ vResult = NoResult
    /\ vResult' = validatePattern(vInput.pattern, vInput.type)
    /\ UNCHANGED <<managerVars, run, vInput>>

NextValidate == Validate

SpecValidate == InitValidate /\ [][NextValidate]_vars

(***************************************************************************)
(* calculateDifficulty and getDifficultyWarning as functions of their      *)
(* inputs.                                                                 *)
(***************************************************************************)
\* the pattern of n symbols c
Repeat(c, n) == [i \in 1..n |-> c]

\* lengths of the patterns under test: the ones validatePattern accepts,
\* one it rejects, and two for which Math.pow overflows
DifficultyLengths == (0..MaxLen) \cup {MaxLongLen - 1, MaxLongLen}

DifficultyPatterns ==
    {Repeat("A", n) : n \in DifficultyLengths} \cup {<<"A", "B", "C">>}

\* the estimatedSeconds at which the warning level changes
WarningThresholds == {60, 300, 1800}

\* estimatedAttempts is Math.round of a positive number: a natural
DirectEstimates ==
    {BigOf(1000 * s + d - WarningWindow) :
        s \in WarningThresholds, d \in 0..(2 * WarningWindow)}

InitDifficulty ==
    /\ activeJobs = [u \in Users |-> NoJob]
    /\ jobCount = 0
    /\ workers = [j \in Jobs |-> NoWorker]
    /\ timers = [j \in Jobs |-> "none"]
    /\ notes = [j \in Jobs |-> <<>>]
    /\ persisted = {}
    /\ lastOp = NoOp
    /\ notifier = "up"
    /\ lastReturn = NoReturn
    /\ now = 0
    /\ run = NoRun
    /\ vInput \in [pattern : DifficultyPatterns, type : AllTypes]
                  \cup [estimatedAttempts : DirectEstimates]
    /\ vResult = NoResult

\* calculateDifficulty(pattern, matchType)
Estimate ==
    /\ vResult = NoResult
    /\ "pattern" \in DOMAIN vInput
    /\ vResult' = calculateDifficulty(vInput.pattern, vInput.type)
    /\ UNCHANGED <<managerVars, run, vInput>>

\* the warning level calculateDifficulty derives from an estimate
Warn ==
    /\ vResult = NoResult
    /\ "estimatedAttempts" \in DOMAIN vInput
    /\ vResult' = [estimatedAttempts |-> vInput.estimatedAttempts,
                   warningLevel |-> getDifficultyWarning(vInput.estimatedAttempts)]
    /\ UNCHANGED <<managerVars, run, vInput>>

NextDifficulty == Estimate \/ Warn

SpecDifficulty == InitDifficulty /\ [][NextDifficulty]_vars


(***************************************************************************)
(* vanityWorker.js: one run of generateVanityWallet.                       *)
(***************************************************************************)
LowerCase == <<"a", "b", "c", "d", "e", "f", "g", "h", "i", "j", "k", "l", "m",
               "n", "o", "p", "q", "r", "s", "t", "u", "v", "w", "x", "y", "z">>
UpperCase == <<"A", "B", "C", "D", "E", "F", "G", "H", "I", "J", "K", "L", "M",
               "N", "O", "P", "Q", "R", "S", "T", "U", "V", "W", "X", "Y", "Z">>

\* String.prototype.toUpperCase on the symbols of patterns and addresses
toUpperCase(str) ==
    [i \in 1..Len(str) |->
        IF \E k \in 1..Len(LowerCase) : LowerCase[k] = str[i]
        THEN UpperCase[CHOOSE k \in 1..Len(LowerCase) : LowerCase[k] = str[i]]
        ELSE str[i]]

startsWith(str, search) ==
    /\ Len(search) <= Len(str)
    /\ SubSeq(str, 1, Len(search)) = search

endsWith(str, search) ==
    /\ Len(search) <= Len(str)
    /\ SubSeq(str, Len(str) - Len(search) + 1, Len(str)) = search

includes(str, search) ==
    \E k \in 0..(Len(str) - Len(search)) :
        SubSeq(str, k + 1, k + Len(search)) = search

\* the switch on type without its default branch: matches stays false
matchTest_NoDefault(address, pattern, type) ==
    LET patternUpper == toUpperCase(pattern)
    IN  CASE type = "prefix" -> startsWith(toUpperCase(address), patternUpper)
          [] type = "suffix" -> endsWith(toUpperCase(address), patternUpper)
          [] type = "contains" -> includes(toUpperCase(address), patternUpper)
          [] OTHER -> FALSE

\* the match test comparing the address as it is with patternUpper
matchTest_CaseSensitive(address, pattern, type) ==
    LET patternUpper == toUpperCase(pattern)
    IN  CASE type = "prefix" -> startsWith(address, patternUpper)
          [] type = "suffix" -> endsWith(address, patternUpper)
          [] type = "contains" -> includes(address, patternUpper)
          [] OTHER -> startsWith(address, patternUpper)

\* the switch on type: matches, for an address and the pattern of the run
matchTest(address, pattern, type) ==
    LET patternUpper == toUpperCase(pattern)
    IN  CASE type = "prefix" -> startsWith(toUpperCase(address), patternUpper)
          [] type = "suffix" -> endsWith(toUpperCase(address), patternUpper)
          [] type = "contains" -> includes(toUpperCase(address), patternUpper)
          [] OTHER -> startsWith(toUpperCase(address), patternUpper)

\* the progress test with > for >=
progressDue_StrictlyMore(attempts, lastProgressReport) ==
    attempts - lastProgressReport > PROGRESS_INTERVAL

progressDue(attempts, lastProgressReport) ==
    attempts - lastProgressReport >= PROGRESS_INTERVAL

\* the loop leaving one attempt of MAX_ATTEMPTS unmade
loopCondition_OneShort(attempts) == attempts + 1 < MAX_ATTEMPTS

\* while (attempts < MAX_ATTEMPTS)
loopCondition(attempts) == attempts < MAX_ATTEMPTS

\* the state of a run at its start: workerData is (pattern, type); pc is
\* "loop" at the loop test, "found" before the test of matches that holds;
\* thrown is the message of the exception the loop body has thrown
startRun(pattern, type) ==
    [state |-> "running", pc |-> "loop", pattern |-> pattern, type |-> type,
     attempts |-> 0, lastProgressReport |-> 0, address |-> <<>>,
     posted |-> <<>>, progress |-> 0, terminals |-> 0, thrown |-> ""]

\* parentPort.postMessage(message): posted holds what the current step
\* posted, progress and terminals count the messages of the run so far
postMessage(r, message) ==
    [r EXCEPT !.posted = Append(@, message),
              !.progress = IF message.type = "progress" THEN @ + 1 ELSE @,
              !.terminals = IF message.type \in {"success", "error"}
                            THEN @ + 1 ELSE @]

\* the loop body testing matches before it reports progress: the attempt
\* that matches posts no progress
attempt_MatchFirst(r, address) ==
    LET attempts == r.attempts + 1
        matches == matchTest(address, r.pattern, r.type)
        r1 == [r EXCEPT !.attempts = attempts, !.address = address,
                        !.posted = <<>>]
        r2 == IF ~matches /\ progressDue(attempts, r.lastProgressReport)
              THEN [postMessage(r1, [type |-> "progress", attempts |-> attempts,
                                     error |-> "", result |-> NoWallet])
                       EXCEPT !.lastProgressReport = attempts]
              ELSE r1
    IN  [r2 EXCEPT !.pc = IF matches THEN "found" ELSE "loop"]

\* one pass through the loop body up to the test of matches: the attempt
\* is counted, a wallet with this address is generated and tested, and
\* progress is reported when it is due
attempt(r, address) ==
    LET attempts == r.attempts + 1
        matches == matchTest(address, r.pattern, r.type)
        r1 == [r EXCEPT !.attempts = attempts, !.address = address,
                        !.posted = <<>>]
        r2 == IF progressDue(attempts, r.lastProgressReport)
              THEN [postMessage(r1, [type |-> "progress", attempts |-> attempts,
                                     error |-> "", result |-> NoWallet])
                       EXCEPT !.lastProgressReport = attempts]
              ELSE r1
    IN  [r2 EXCEPT !.pc = IF matches THEN "found" ELSE "loop"]

\* the success branch without its return statement
succeed_NoReturn(r) ==
    [postMessage([r EXCEPT !.posted = <<>>],
                 [type |-> "success", attempts |-> r.attempts, error |-> "",
                  result |-> Wallet(r.address, r.attempts)])
        EXCEPT !.pc = "loop"]

\* if (matches): the result is posted and the function returns
succeed(r) ==
    [postMessage([r EXCEPT !.posted = <<>>],
                 [type |-> "success", attempts |-> r.attempts, error |-> "",
                  result |-> Wallet(r.address, r.attempts)])
        EXCEPT !.pc = "done", !.state = "returned"]

\* an error message is posted and the run ends in state: after the loop
\* ('max attempts'), in the catch clause ('fault') and in the SIGTERM
\* handler ('Generation cancelled by user')
fail(r, error, state) ==
    [postMessage([r EXCEPT !.posted = <<>>],
                 [type |-> "error", attempts |-> 0, error |-> error,
                  result |-> NoWallet])
        EXCEPT !.pc = "done", !.state = state]

\* texts of the exceptions the generation of a wallet throws
FaultTexts == {"fault", "entropy source failure"}

\* a loop without the try statement around it: the exception leaves the
\* function, whose promise is rejected, and the thread dies of it
catchClause_Uncaught(r, error) ==
    [r EXCEPT !.thrown = error, !.posted = <<>>, !.pc = "done",
              !.state = "crashed"]

\* catch (error): error.message is posted and the function ends
catchClause(r, error) == fail([r EXCEPT !.thrown = error], error, "returned")

\* PROGRESS_INTERVAL * n attempts without a match take the run from
\* (attempts, lastProgressReport) to (attempts + PROGRESS_INTERVAL * n,
\* lastProgressReport + PROGRESS_INTERVAL * n) and post n progress
\* messages: skipped is the largest such number of attempts that leaves
\* the run below MAX_ATTEMPTS
skipped(r) ==
    IF r.attempts >= NearAttempts
    THEN ((MAX_ATTEMPTS - 1 - r.attempts) \div PROGRESS_INTERVAL)
             * PROGRESS_INTERVAL
    ELSE 0

\* addresses of the generated wallets: one that starts with the pattern of
\* the worker model but for the case of its letters, one that ends with
\* it, one that has it inside, one without it
RunPattern == <<"A", "b">>
Addresses == {<<"a", "B", "x", "y">>, <<"x", "y", "a", "B">>,
              <<"x", "a", "B", "y">>, <<"x", "y", "B", "a">>}

InitWorker ==
    /\ activeJobs = [u \in Users |-> NoJob]
    /\ jobCount = 0
    /\ workers = [j \in Jobs |-> NoWorker]
    /\ timers = [j \in Jobs |-> "none"]
    /\ notes = [j \in Jobs |-> <<>>]
    /\ persisted = {}
    /\ lastOp = NoOp
    /\ notifier = "up"
    /\ lastReturn = NoReturn
    /\ now = 0
    /\ run \in {startRun(RunPattern, type) : type \in AllTypes}
    /\ vInput = NoInput
    /\ vResult = NoResult

RunStep(r, step) ==
    /\ run' = r
    /\ lastOp' = Op("run", NoUser, 0, step)
    /\ UNCHANGED <<activeJobs, jobCount, workers, timers, notes, persisted,
                   notifier, lastReturn, now, vInput, vResult>>

\* the loop test holds and the body runs up to the test of matches
RunAttempt ==
    /\ run.state = "running" /\ run.pc = "loop"
    /\ loopCondition(run.attempts)
    /\ skipped(run) = 0
    /\ \E address \in Addresses : RunStep(attempt(run, address), "attempt")

\* many passes through the loop without a match
RunSkip ==
    /\ run.state = "running" /\ run.pc = "loop"
    /\ skipped(run) > 0
    /\ RunStep([run EXCEPT
                   !.attempts = @ + skipped(run),
                   !.lastProgressReport = @ + skipped(run),
                   !.progress = @ + skipped(run) \div PROGRESS_INTERVAL,
                   !.posted = <<>>], "skip")

\* matches holds
RunSucceed ==
    /\ run.state = "running" /\ run.pc = "found"
    /\ RunStep(succeed(run), "success")

\* the loop test fails
RunExhaust ==
    /\ run.state = "running" /\ run.pc = "loop"
    /\ ~loopCondition(run.attempts)
    /\ RunStep(fail(run, "max attempts", "returned"), "exhausted")

\* the generation of the next wallet throws: the catch clause runs
RunThrow ==
    /\ run.state = "running" /\ run.pc = "loop"
    /\ loopCondition(run.attempts)
    /\ \E error \in FaultTexts : RunStep(catchClause(run, error), "fault")

\* worker.terminate() by the owner stops the thread wherever it is
RunTerminate ==
    /\ run.state = "running"
    /\ RunStep([run EXCEPT !.state = "terminated", !.posted = <<>>],
               "terminate")

\* the SIGTERM handler: it posts an error and calls process.exit(0).  Node
\* delivers no signal to a worker thread; the model lets the handler run
\* all the same, at any moment of a run that has not ended.
RunSIGTERM ==
    /\ run.state = "running"
    /\ RunStep(fail(run, "Generation cancelled by user", "exited"), "sigterm")

NextWorker ==
    \/ RunAttempt
    \/ RunSkip
    \/ RunSucceed
    \/ RunExhaust
    \/ RunThrow
    \/ RunTerminate
    \/ RunSIGTERM

SpecWorker == InitWorker /\ [][NextWorker]_vars

\* The thread of a worker is scheduled until its function returns: a run
\* that is neither terminated nor killed goes on with its loop.
SpecWorkerScheduled ==
    InitWorker /\ [][NextWorker]_vars
    /\ WF_vars(RunAttempt \/ RunSkip \/ RunSucceed \/ RunExhaust)

(***************************************************************************)
(* A pattern and a type on their way through the service: validatePattern, *)
(* startGeneration, and the run of the worker made with them.              *)
(***************************************************************************)
\* the pattern of the worker model, the empty one, one with a symbol
\* outside the alphabet, an 'extreme' one
AnyTypePatterns == {RunPattern, <<>>, <<"0">>, <<"A", "B", "C", "D">>}

InitAnyType ==
    /\ activeJobs = [u \in Users |-> NoJob]
    /\ jobCount = 0
    /\ workers = [j \in Jobs |-> NoWorker]
    /\ timers = [j \in Jobs |-> "none"]
    /\ notes = [j \in Jobs |-> <<>>]
    /\ persisted = {}
    /\ lastOp = NoOp
    /\ notifier = "up"
    /\ lastReturn = NoReturn
    /\ now = 0
    /\ run = NoRun
    /\ vInput \in [pattern : AnyTypePatterns, type : AllTypes]
    /\ vResult = NoResult

\* a caller invokes startGeneration with the pattern and type under test
StartInput ==
    /\ vResult # NoResult
    /\ jobCount = 0 /\ lastOp.op # "start"
    /\ Start(UserOrder[1], vInput.pattern, vInput.type, 1)

\* the thread of the worker of job 1 begins generateVanityWallet with the
\* workerData startGeneration gave it
WorkerStarts ==
    /\ run = NoRun
    /\ jobCount = 1 /\ workers[1].state = "running"
    /\ LET jobInfo == activeJobs[workers[1].owner]
       IN  RunStep(startRun(jobInfo.pattern, jobInfo.type), "begin")

NextAnyType ==
    \/ Validate
    \/ StartInput
    \/ WorkerStarts
    \/ RunAttempt
    \/ RunSucceed

SpecAnyType == InitAnyType /\ [][NextAnyType]_vars


(***************************************************************************)
(* Vocabulary of the properties.                                           *)
(***************************************************************************)
Created(j) == j \in 1..jobCount
Owner(j) == workers[j].owner
InTable(j) == Created(j) /\ activeJobs[Owner(j)].worker = j
\* job j was started and is no longer in the active table
Concluded(j) == Created(j) /\ ~InTable(j)

TerminalKinds == {"success", "error", "cancelled"}
TerminalNotes(j) ==
    Cardinality({i \in 1..Len(notes[j]) : notes[j][i].kind \in TerminalKinds})
Notified(j, kind) == \E i \in 1..Len(notes[j]) : notes[j][i].kind = kind

\* the notification sent last about job j in the manager state s
LastNote(s, j) == s.notes[j][Len(s.notes[j])]

FailedStart(op) == op.op = "start" /\ op.result # "Started"

\* the last step handled an event that ends the job of its user: a cancel
\* call, a timeout, a terminal worker message, a worker error or a non-zero
\* exit
EndingOp(op) ==
    \/ op.op \in {"cancel", "timeout", "error"}
    \/ op.op = "message" /\ op.result \in {"success", "error"}
    \/ op.op = "exit" /\ op.result = "1"

(***************************************************************************)
(* C1.  A requester never has two live jobs: of the jobs of one requester  *)
(* at most one still has its timeout armed, and it is the one in the       *)
(* active table.  A startGeneration by a requester who has an entry in     *)
(* activeJobs fails with AlreadyActive and leaves the table, the workers   *)
(* and the timers as they were.                                            *)
(***************************************************************************)
OneJobPerRequester ==
    \A u \in Users :
        LET live == {j \in 1..jobCount : Owner(j) = u /\ timers[j] = "armed"}
        IN  /\ Cardinality(live) <= 1
            /\ \A j \in live : activeJobs[u].worker = j

SecondStartRejected ==
    (lastOp'.op = "start" /\ activeJobs[lastOp'.user] # NoJob)
        => /\ lastOp'.result = "AlreadyActive"
           /\ UNCHANGED <<activeJobs, workers, timers, jobCount>>

\* C1: at most one live job per requester, and a second start is rejected
\* with AlreadyActive without altering the existing job
C1_OneActiveJobPerRequester ==
    [](OneJobPerRequester) /\ [][SecondStartRejected]_vars

C1_Witness ==
    /\ lastOp.op = "start"
    /\ lastOp.result = "AlreadyActive"
    /\ activeJobs[lastOp.user] # NoJob
    /\ timers[activeJobs[lastOp.user].worker] = "armed"

(***************************************************************************)
(* C2.  The active table never holds more than maxConcurrentJobs (3) jobs, *)
(* and a startGeneration by a requester without a job while 3 jobs are     *)
(* active fails with ConcurrencyLimitReached.                              *)
(***************************************************************************)
WithinLimit == Cardinality(ActiveUsers(activeJobs)) <= maxConcurrentJobs

FullTableRejects ==
    (/\ lastOp'.op = "start"
     /\ activeJobs[lastOp'.user] = NoJob
     /\ Cardinality(ActiveUsers(activeJobs)) = maxConcurrentJobs)
        => /\ lastOp'.result = "ConcurrencyLimitReached"
           /\ activeJobs' = activeJobs

\* C2: never more than 3 active jobs, and a start at 3 active jobs is
\* rejected with ConcurrencyLimitReached
C2_ConcurrencyLimit == [](WithinLimit) /\ [][FullTableRejects]_vars

C2_Witness ==
    /\ lastOp.op = "start"
    /\ lastOp.result = "ConcurrencyLimitReached"
    /\ activeJobs[lastOp.user] = NoJob
    /\ Cardinality(ActiveUsers(activeJobs)) = maxConcurrentJobs

(***************************************************************************)
(* C3.  When 3 jobs are active and an event ends the job of a requester    *)
(* (success, worker error, cancel, timeout), the entry is removed in that  *)
(* same step, and in the resulting state startGeneration with a valid      *)
(* pattern succeeds for every requester without a job.                     *)
(***************************************************************************)
SlotFreed ==
    (/\ Cardinality(ActiveUsers(activeJobs)) = maxConcurrentJobs
     /\ EndingOp(lastOp')
     /\ activeJobs[lastOp'.user] # NoJob)
        => /\ activeJobs'[lastOp'.user] = NoJob
           /\ Cardinality(ActiveUsers(activeJobs')) = maxConcurrentJobs - 1
           /\ \A u \in Users : activeJobs'[u] = NoJob =>
                 \A in \in ValidStarts :
                     StartResult(activeJobs', u, in[1], in[2]) = "Started"

FailedStartChangesNothing ==
    FailedStart(lastOp') => UNCHANGED <<activeJobs, workers, timers, jobCount, notes>>

\* C4: a failed start changes no table entry, worker, timer or notification
C4_FailedStartCreatesNothing == [][FailedStartChangesNothing]_vars

C4_Witness ==
    /\ lastOp.op = "start"
    /\ lastOp.result = "InvalidPattern"
    /\ Cardinality(ActiveUsers(activeJobs)) \in 1..(maxConcurrentJobs - 1)


(***************************************************************************)
(* C5.  validatePattern returns valid = false for every pattern that is    *)
(* empty, longer than 6 symbols or has a symbol outside the base58         *)
(* alphabet, whatever the match type.                                      *)
(***************************************************************************)
Validated_Ran == vResult # NoResult

BadPattern(pattern) ==
    \/ Len(pattern) = 0
    \/ Len(pattern) > 6
    \/ \E i \in 1..Len(pattern) : pattern[i] \notin Base58Alphabet

\* C5: empty, over-long and non-base58 patterns are invalid for every type
C5_BadPatternsRejected ==
    (Validated_Ran /\ BadPattern(vInput.pattern)) => ~vResult.valid

\* a pattern of base58 symbols of a length within the limit but for one
\* symbol outside the alphabet was rejected
C5_Witness ==
    /\ Validated_Ran
    /\ Len(vInput.pattern) \in 1..3
    /\ \E i \in 1..Len(vInput.pattern) : vInput.pattern[i] \notin Base58Alphabet
    /\ vInput.type = "contains"
    /\ ~vResult.valid
    /\ vResult.errors = <<"invalid characters">>

(***************************************************************************)
(* C6.  A non-empty pattern of at most 6 base58 symbols whose difficulty   *)
(* estimate is 'extreme' passes validation (valid = true).                 *)
(***************************************************************************)
C6_ExtremeStillValid ==
    (/\ Validated_Ran
     /\ ~BadPattern(vInput.pattern)
     /\ vResult.difficulty.warningLevel = "extreme")
        => vResult.valid

(***************************************************************************)
(* C7.  Every job that has ended (success, worker error, cancel, timeout)  *)
(* has caused exactly one terminal notification: never none, never a       *)
(* second one from a later exit, error or message event of its worker.     *)
(***************************************************************************)
C7_ExactlyOneTerminalNotification ==
    \A j \in Jobs : Concluded(j) => TerminalNotes(j) = 1

(***************************************************************************)
(* C8.  Once a job is concluded, no later event of that job (worker        *)
(* message, worker error, worker exit, timeout) changes the active table   *)
(* or the timers or notifies again.                                        *)
(***************************************************************************)
LateEventIgnored ==
    \A j \in Jobs :
        (/\ Concluded(j)
         /\ lastOp'.job = j
         /\ lastOp'.op \in {"message", "error", "exit", "timeout"})
            => UNCHANGED <<activeJobs, timers, notes>>

\* C8: no event of a concluded job changes the table, a timer or the
\* notifications
C8_TerminalIsFinal == [][LateEventIgnored]_vars

(***************************************************************************)
(* C9.  A 'success' message handled while its requester has an active job  *)
(* removes the entry, clears the armed timeout of that job, leaves its     *)
(* worker not running and sends one success notification, all in the step. *)
(***************************************************************************)
SuccessCleansUp ==
    (/\ lastOp'.op = "message"
     /\ lastOp'.result = "success"
     /\ activeJobs[lastOp'.user] # NoJob)
        => LET jobInfo == activeJobs[lastOp'.user]
               src == lastOp'.job
           IN  /\ activeJobs'[lastOp'.user] = NoJob
               /\ timers[jobInfo.timeout] = "armed"
               /\ timers'[jobInfo.timeout] = "cleared"
               /\ workers'[jobInfo.worker].state # "running"
               /\ notes'[src] =
                      Append(notes[src], Note("success", ""))

\* C9: handling a success message removes the entry, clears the timeout,
\* stops the worker and notifies success in one step
C9_SuccessCleansUp == [][SuccessCleansUp]_vars

\* the success message of a job's own worker has just been handled
C9_Witness ==
    /\ lastOp.op = "message" /\ lastOp.result = "success"
    /\ Concluded(lastOp.job)
    /\ notes[lastOp.job] = <<Note("success", "")>>
    /\ timers[lastOp.job] = "cleared"
    /\ workers[lastOp.job].state \in {"finished", "dying"}

(***************************************************************************)
(* C10.  When a job succeeds, its result record is handed to a consumer    *)
(* (wallet store or caller): no success whose result reaches no consumer.  *)
(***************************************************************************)
C10_ResultHandedOver ==
    \A j \in Jobs : Notified(j, "success") => j \in persisted

(***************************************************************************)
(* C11.  An 'error' message of the worker of a job that is in the active   *)
(* table removes the entry, clears the job's armed timeout, leaves the     *)
(* worker not running and sends one error notification that carries the    *)
(* reason of the message, all in the step that handles the message.        *)
(***************************************************************************)
ErrorMessageFails ==
    (/\ lastOp'.op = "message"
     /\ lastOp'.result = "error"
     /\ InTable(lastOp'.job))
        => LET j == lastOp'.job
               message == Head(workers[j].port)
           IN  /\ activeJobs'[lastOp'.user] = NoJob
               /\ timers[j] = "armed"
               /\ timers'[j] = "cleared"
               /\ workers'[j].state \notin {"running", "none"}
               /\ notes'[j] = Append(notes[j], Note("error", message.error))

\* C11: handling an error message of an active job removes the entry,
\* clears the timeout, stops the worker and forwards the worker's reason
C11_ErrorMessageCleansUp == [][ErrorMessageFails]_vars

\* the 'Maximum attempts reached' message of a job's worker has just been
\* handled
C11_Witness ==
    /\ lastOp.op = "message" /\ lastOp.result = "error"
    /\ Concluded(lastOp.job)
    /\ notes[lastOp.job] = <<Note("error", "max attempts")>>
    /\ timers[lastOp.job] = "cleared"
    /\ workers[lastOp.job].attempts = MAX_ATTEMPTS

(***************************************************************************)
(* C12.  cancelGeneration for a requester who has an entry returns true    *)
(* and, within the call, removes the entry, clears the job's armed         *)
(* timeout, leaves the worker not running and sends the cancel text with   *)
(* the reason; it takes no message from the worker's port, whatever the    *)
(* worker was doing.                                                       *)
(***************************************************************************)
CancelEndsJob ==
    (lastOp'.op = "cancel" /\ activeJobs[lastOp'.user] # NoJob)
        => LET jobInfo == activeJobs[lastOp'.user]
               j == jobInfo.worker
           IN  /\ lastOp'.result = "true"
               /\ lastOp'.job = j
               /\ activeJobs'[lastOp'.user] = NoJob
               /\ timers[jobInfo.timeout] = "armed"
               /\ timers'[jobInfo.timeout] = "cleared"
               /\ workers'[jobInfo.worker].state \notin {"running", "none"}
               /\ workers'[jobInfo.worker].port = workers[jobInfo.worker].port
               /\ notes'[j] = Append(notes[j],
                                     Note("cancelled", "Cancelled by user"))

\* C12: a cancel call for a requester with an active job ends the job in
\* the call itself and returns true, taking no message from the worker
C12_CancelEndsJobInCall == [][CancelEndsJob]_vars

\* a running job whose worker has posted nothing was cancelled
C12_Witness ==
    /\ lastOp.op = "cancel" /\ lastOp.result = "true"
    /\ Concluded(lastOp.job)
    /\ workers[lastOp.job].state = "dying"
    /\ workers[lastOp.job].port = <<>>
    /\ timers[lastOp.job] = "cleared"
    /\ notes[lastOp.job] = <<Note("cancelled", "Cancelled by user")>>

(***************************************************************************)
(* C13.  cancelGeneration for a requester who has no entry returns false   *)
(* and changes nothing: the table, the workers, the timers and the         *)
(* notifications of every job stay as they were.                           *)
(***************************************************************************)
CancelWithoutJob ==
    (lastOp'.op = "cancel" /\ activeJobs[lastOp'.user] = NoJob)
        => /\ lastOp'.result = "false"
           /\ UNCHANGED <<activeJobs, workers, timers, notes, jobCount, persisted>>

\* C13: a cancel call for a requester without an active job returns false,
\* changes no job and sends nothing
C13_CancelWithoutJobIsNoOp == [][CancelWithoutJob]_vars

\* a requester whose job was concluded called cancel while the job of
\* another requester was running
C13_Witness ==
    /\ lastOp.op = "cancel" /\ lastOp.result = "false"
    /\ activeJobs[lastOp.user] = NoJob
    /\ \E j \in 1..jobCount : Owner(j) = lastOp.user
    /\ \E j \in 1..jobCount : InTable(j) /\ Owner(j) # lastOp.user

(***************************************************************************)
(* C14.  The timeout callback of a job that is still in the active table   *)
(* removes it, whatever its worker did or did not send; and, the event     *)
(* loop running the callbacks of armed timers, every job that was started  *)
(* is eventually out of the active table.                                  *)
(***************************************************************************)
TimeoutRemoves ==
    (lastOp'.op = "timeout" /\ InTable(lastOp'.job))
        => /\ activeJobs'[lastOp'.user] = NoJob
           /\ lastOp'.result = "true"
           /\ timers'[lastOp'.job] = "fired"

\* C14: a job still active at its deadline is removed by the timeout, so
\* under fairness of the timer every started job is eventually removed
C14_DeadlineRemovesJob ==
    /\ [][TimeoutRemoves]_vars
    /\ \A j \in 1..MaxJobs : Created(j) ~> Concluded(j)

\* the deadline of a job passed while its worker was running and had sent
\* nothing
C14_Witness ==
    /\ lastOp.op = "timeout" /\ lastOp.result = "true"
    /\ Concluded(lastOp.job)
    /\ timers[lastOp.job] = "fired"
    /\ workers[lastOp.job].port = <<>>
    /\ workers[lastOp.job].state = "dying"
    /\ Len(notes[lastOp.job]) = 1

(***************************************************************************)
(* C15.  A job ended by its deadline is concluded as TimedOut and not as   *)
(* Cancelled: the kind of the notification the timeout sends differs from  *)
(* the kind an explicit cancelGeneration call sends for the same job.      *)
(***************************************************************************)
TimeoutDistinctFromCancel ==
    (lastOp'.op = "timeout" /\ InTable(lastOp'.job))
        => LET j == lastOp'.job
               byDeadline == notes'[j][Len(notes'[j])]
               byCancel == LastNote(cancelGeneration(Manager, lastOp'.user,
                                        "Cancelled by user", FALSE).state, j)
           IN  byDeadline.kind # byCancel.kind

\* C15: the outcome and notification kind of a timed-out job differ from
\* those of a cancelled job
C15_TimedOutDistinctFromCancelled == [][TimeoutDistinctFromCancel]_vars

(***************************************************************************)
(* C16.  A job whose worker reached MAX_ATTEMPTS without a match is        *)
(* concluded as Exhausted and not as Failed: the manager's notification    *)
(* for it differs in kind from the one for a fault the worker reports.     *)
(***************************************************************************)
ExhaustedDistinctFromFailed ==
    (/\ lastOp'.op = "message"
     /\ lastOp'.result = "error"
     /\ InTable(lastOp'.job)
     /\ Head(workers[lastOp'.job].port).error = "max attempts")
        => LET j == lastOp'.job
               fault == [type |-> "error", attempts |-> 0, error |-> "fault",
                         result |-> NoWallet]
               exhausted == notes'[j][Len(notes'[j])]
               failed == LastNote(handleWorkerMessage(Manager, lastOp'.user, j,
                                                      fault, FALSE), j)
           IN  exhausted.kind # failed.kind

\* C16: the manager keeps the outcome of an exhausted job distinct from
\* that of a failed job
C16_ExhaustedDistinctFromFailed == [][ExhaustedDistinctFromFailed]_vars

(***************************************************************************)
(* C17.  Whenever a job leaves the active table, by whichever path, its    *)
(* timeout is no longer armed after that same step.  So the timer of a job *)
(* is armed only while the job is in the table, and a timeout callback     *)
(* runs only for the job that is its requester's entry: never for a job    *)
(* that has ended, never against a later job of the same requester.        *)
(***************************************************************************)
ArmedOnlyInTable == \A j \in Jobs : timers[j] = "armed" => InTable(j)

TimeoutLeavesWithJob ==
    /\ \A j \in Jobs :
          (InTable(j) /\ activeJobs'[Owner(j)].worker # j)
              => timers[j] = "armed" /\ timers'[j] \in {"cleared", "fired"}
    /\ lastOp'.op = "timeout"
          => /\ InTable(lastOp'.job)
             /\ \A k \in Jobs : k # lastOp'.job /\ InTable(k)
                   => activeJobs'[Owner(k)] = activeJobs[Owner(k)]

\* C17: a job's timeout is cancelled in the step in which the job leaves
\* the table, so no timeout fires for an ended job or cancels a later job
C17_TimeoutCancelledWithJob ==
    [](ArmedOnlyInTable) /\ [][TimeoutLeavesWithJob]_vars

\* a requester's first job has ended and its timeout was cleared; the same
\* requester's second job is active with its own timeout armed
C17_Witness ==
    /\ jobCount = 2
    /\ Owner(1) = Owner(2)
    /\ timers[1] = "cleared"
    /\ InTable(2)
    /\ timers[2] = "armed"
    /\ workers[1].state = "exited"

(***************************************************************************)
(* C18.  When the notifier fails to deliver a notification, the handler    *)
(* that sent it does to the job what it does when delivery succeeds: a     *)
(* success, error or cancel text that is not delivered still leaves the    *)
(* requester's entry removed, its timeout not armed and its worker not     *)
(* running; a progress text that is not delivered still leaves the job     *)
(* active with lastProgress at the reported count.                         *)
(***************************************************************************)
\* the jobs about which the step sent a text that was not delivered
Undelivered ==
    {j \in Jobs : /\ Len(notes'[j]) = Len(notes[j]) + 1
                  /\ ~notes'[j][Len(notes'[j])].delivered}

DeliveryFailureHarmless ==
    \A j \in Undelivered :
        LET note == notes'[j][Len(notes'[j])]
            userId == lastOp'.user
            jobInfo == activeJobs[userId]
        IN  IF note.kind = "progress"
            THEN /\ jobInfo # NoJob
                 /\ activeJobs' = [activeJobs EXCEPT
                                      ![userId].lastProgress = note.attempts]
                 /\ timers' = timers
                 /\ workers'[jobInfo.worker].state = workers[jobInfo.worker].state
            ELSE /\ activeJobs'[userId] = NoJob
                 /\ jobInfo # NoJob =>
                       /\ timers'[jobInfo.timeout] \in {"cleared", "fired"}
                       /\ workers'[jobInfo.worker].state \notin {"running", "none"}
                 /\ jobInfo = NoJob =>
                       /\ timers' = timers
                       /\ activeJobs' = activeJobs

\* C18: a notification that fails to be delivered changes nothing of what
\* its handler does to the job
C18_DeliveryFailureHarmless == [][DeliveryFailureHarmless]_vars

\* a running job was cancelled while the Telegram API was down
C18_Witness ==
    /\ notifier = "down"
    /\ lastOp.op = "cancel" /\ lastOp.result = "true"
    /\ Concluded(lastOp.job)
    /\ Len(notes[lastOp.job]) = 1
    /\ ~notes[lastOp.job][1].delivered
    /\ notes[lastOp.job][1].kind = "cancelled"
    /\ timers[lastOp.job] = "cleared"
    /\ workers[lastOp.job].state = "dying"

(***************************************************************************)
(* C19.  Handling a 'progress' message of the worker of an active job      *)
(* records the reported attempt count with the job, and the recorded       *)
(* count never decreases while the job is in the table.  The only attempt  *)
(* count a jobInfo holds is lastProgress.                                  *)
(***************************************************************************)
attemptsObserved(jobInfo) == jobInfo.lastProgress

ProgressRecorded ==
    /\ (/\ lastOp'.op = "message"
         /\ lastOp'.result = "progress"
         /\ InTable(lastOp'.job))
            => attemptsObserved(activeJobs'[lastOp'.user])
                   = Head(workers[lastOp'.job].port).attempts
    /\ \A j \in Jobs :
          (InTable(j) /\ activeJobs'[Owner(j)].worker = j)
              => attemptsObserved(activeJobs'[Owner(j)])
                     >= attemptsObserved(activeJobs[Owner(j)])

\* C19: every progress message of an active job updates the job's recorded
\* attempt count, which never decreases
C19_AttemptsObservedRecorded == [][ProgressRecorded]_vars

(***************************************************************************)
(* C20.  A 'progress' message handled for a requester's active job is      *)
(* forwarded to the notifier exactly when its attempt count is at least    *)
(* 10,000 more than the count of the job's last progress notification (0   *)
(* before the first).  So the progress notifications of one job are at     *)
(* least 10,000 attempts apart and the first carries at least 10,000.      *)
(***************************************************************************)
\* the attempt counts of the progress notifications of job j, in order
RECURSIVE ProgressCounts(_)
ProgressCounts(ns) ==
    IF ns = <<>> THEN <<>>
    ELSE (IF Head(ns).kind = "progress" THEN <<Head(ns).attempts>> ELSE <<>>)
         \o ProgressCounts(Tail(ns))

ProgressNotesApart ==
    \A j \in Jobs :
        LET counts == ProgressCounts(notes[j])
        IN  \A i \in 1..Len(counts) :
                counts[i] - (IF i = 1 THEN 0 ELSE counts[i - 1]) >= 10000

ProgressForwardedAtThreshold ==
    (/\ lastOp'.op = "message"
     /\ lastOp'.result = "progress"
     /\ activeJobs[lastOp'.user] # NoJob)
        => LET jobInfo == activeJobs[lastOp'.user]
               k == jobInfo.worker
               attempts == Head(workers[lastOp'.job].port).attempts
               counts == ProgressCounts(notes[k])
               last == IF counts = <<>> THEN 0 ELSE counts[Len(counts)]
           IN  IF attempts - last >= 10000
               THEN /\ Len(notes'[k]) = Len(notes[k]) + 1
                    /\ ProgressCounts(notes'[k]) = Append(counts, attempts)
               ELSE notes' = notes

\* C20: a progress notification is sent exactly when the reported count is
\* at least 10,000 above the last notified one
C20_ProgressThrottled ==
    [](ProgressNotesApart) /\ [][ProgressForwardedAtThreshold]_vars

\* one job was notified of its progress twice, the second time after a
\* report that was not forwarded
C20_Witness ==
    /\ lastOp.op = "message" /\ lastOp.result = "progress"
    /\ InTable(lastOp.job)
    /\ ProgressCounts(notes[lastOp.job]) = <<10000, 20000>>
    /\ workers[lastOp.job].attempts = 21000
    /\ workers[lastOp.job].port = <<>>

(***************************************************************************)
(* C21.  getStatus for a requester with an active job returns a snapshot   *)
(* with the job's pattern, match type, elapsed time, difficulty and        *)
(* attemptsObserved; for a requester without a job it returns null; in     *)
(* both cases no manager state changes.                                    *)
(***************************************************************************)
StatusSnapshot ==
    lastOp'.op = "status"
        => LET jobInfo == activeJobs[lastOp'.user]
           IN  /\ UNCHANGED <<activeJobs, jobCount, workers, timers, notes,
                              persisted>>
               /\ jobInfo = NoJob => lastReturn' = Null
               /\ jobInfo # NoJob =>
                     /\ DOMAIN lastReturn' = {"pattern", "type", "elapsed",
                                              "difficulty", "attemptsObserved"}
                     /\ lastReturn'.pattern = jobInfo.pattern
                     /\ lastReturn'.type = jobInfo.type
                     /\ lastReturn'.difficulty = jobInfo.difficulty

\* C21: getStatus returns pattern, match type, elapsed time, difficulty and
\* attemptsObserved of an active job, null otherwise, and changes nothing
C21_StatusSnapshot == [][StatusSnapshot]_vars

(***************************************************************************)
(* C22.  A startGeneration that passes its checks adds one entry, for the  *)
(* requester, to the active table and changes no other entry; the job has  *)
(* a worker that did not exist before and is running with an empty port,   *)
(* a timeout that was not set before and is armed, and the difficulty that *)
(* validatePattern computed; the call returns the job's jobId and that     *)
(* difficulty.                                                             *)
(***************************************************************************)
StartRegisters ==
    (lastOp'.op = "start" /\ lastOp'.result = "Started")
        => LET userId == lastOp'.user
               j == lastOp'.job
               jobInfo == activeJobs'[userId]
           IN  /\ activeJobs[userId] = NoJob
               /\ \A u \in Users \ {userId} : activeJobs'[u] = activeJobs[u]
               /\ jobCount' = jobCount + 1
               /\ jobInfo.userId = userId
               /\ jobInfo.worker = j /\ jobInfo.timeout = j
               /\ workers[j] = NoWorker
               /\ workers'[j] = [owner |-> userId, state |-> "running",
                                 attempts |-> 0, port |-> <<>>,
                                 jobId |-> jobInfo.jobId]
               /\ \A k \in Jobs \ {j} : workers'[k] = workers[k]
               /\ timers[j] = "none"
               /\ timers' = [timers EXCEPT ![j] = "armed"]
               /\ jobInfo.difficulty =
                      validatePattern(jobInfo.pattern, jobInfo.type).difficulty
               /\ lastReturn'.jobId = jobInfo.jobId
               /\ lastReturn'.difficulty = jobInfo.difficulty
               /\ notes' = notes

\* C22: a successful start registers exactly one new job with a fresh
\* worker, an armed timeout and the validation-time difficulty, and
\* returns its jobId and difficulty
C22_StartRegistersJob == [][StartRegisters]_vars

\* a second requester's job has just been started while the first
\* requester's job is running
C22_Witness ==
    /\ lastOp.op = "start" /\ lastOp.result = "Started" /\ lastOp.job = 2
    /\ InTable(1) /\ InTable(2)
    /\ timers[2] = "armed"
    /\ workers[2].state = "running"
    /\ lastReturn.jobId = activeJobs[lastOp.user].jobId
    /\ lastReturn.difficulty.warningLevel = "easy"

(***************************************************************************)
(* C27.  The manager keeps no key material: at every moment, before and    *)
(* after a 'success' message is handled, no entry of activeJobs and no     *)
(* text the manager sent has a field for a private key, a seed, a mnemonic *)
(* or the result of a worker.                                              *)
(***************************************************************************)
SecretFields == {"privateKey", "secretKey", "seed", "mnemonic", "result"}

\* C27: no job record and no other manager state holds key material
C27_NoSecretRetained ==
    /\ \A u \in Users : DOMAIN activeJobs[u] \cap SecretFields = {}
    /\ \A j \in Jobs : \A i \in 1..Len(notes[j]) :
           DOMAIN notes[j][i] \cap SecretFields = {}

\* a success message that carried a wallet has been handled for a job of
\* the table, and a later job is running
C27_Witness ==
    /\ \E j \in Jobs : Notified(j, "success") /\ Concluded(j)
                        /\ workers[j].state = "exited"
    /\ \E k \in Jobs : InTable(k) /\ workers[k].state = "running"

(***************************************************************************)
(* Vocabulary of the worker properties.                                    *)
(***************************************************************************)
\* the messages of a type among those the last step of the run posted
Posted(r, types) == SelectSeq(r.posted, LAMBDA m : m.type \in types)

RunEnded == run.state \in {"returned", "exited"}

\* two symbols that are one letter in either case, or the same symbol
SameLetter(a, b) ==
    \/ a = b
    \/ \E k \in 1..Len(LowerCase) : {a, b} = {LowerCase[k], UpperCase[k]}

\* pattern stands in address from position k + 1 on, whatever the case
FoundAt(address, pattern, k) ==
    /\ k >= 0 /\ k + Len(pattern) <= Len(address)
    /\ \A i \in 1..Len(pattern) : SameLetter(address[k + i], pattern[i])

Matches(address, pattern, type) ==
    CASE type = "prefix" -> FoundAt(address, pattern, 0)
      [] type = "suffix" -> FoundAt(address, pattern, Len(address) - Len(pattern))
      [] type = "contains" ->
             \E k \in 0..Len(address) : FoundAt(address, pattern, k)

(***************************************************************************)
(* C23.  A run posts at most one terminal message (success or error) and   *)
(* no message at all after it; a run that has ended without being          *)
(* terminated has posted exactly one, and a run that its owner does not    *)
(* terminate ends.                                                         *)
(***************************************************************************)
SilentAfterTerminal ==
    run.terminals > 0 => (run'.state # "running" /\ run'.posted = <<>>
                          /\ run'.terminals = run.terminals
                          /\ run'.progress = run.progress)

\* C23: at most one terminal message, none after it, exactly one unless
\* the owner terminates the run
C23_OneTerminalMessage ==
    /\ [](run.terminals <= 1)
    /\ [](RunEnded => run.terminals = 1)
    /\ [](run.state = "terminated" => run.terminals = 0)
    /\ [][SilentAfterTerminal]_vars
    /\ <>(run.state = "terminated" \/ (RunEnded /\ run.terminals = 1))

\* a run has returned after two progress messages and a success
C23_Witness ==
    /\ run.state = "returned" /\ run.terminals = 1 /\ run.progress = 2
    /\ Len(Posted(run, {"success"})) = 1

(***************************************************************************)
(* C24.  A success message is posted only for an address in which the      *)
(* pattern stands, whatever the case of the letters, at the place its type *)
(* names (start for prefix, end for suffix, anywhere for contains), with   *)
(* the count of the attempt that made it; and the first attempt that makes *)
(* such an address is the last attempt of the run: the success message is  *)
(* the only message that can follow it.                                    *)
(***************************************************************************)
SuccessOnFirstMatch ==
    /\ Posted(run', {"success"}) # <<>> =>
          /\ run.type \in MatchTypes => Matches(run.address, run.pattern, run.type)
          /\ run.pc = "found"
          /\ run'.posted = <<[type |-> "success", attempts |-> run.attempts,
                              error |-> "",
                              result |-> Wallet(run.address, run.attempts)]>>
          /\ run'.attempts = run.attempts
    /\ (lastOp'.result = "attempt" /\ run.type \in MatchTypes) =>
          /\ ~Matches(run.address, run.pattern, run.type)
          /\ run'.pc = IF Matches(run'.address, run'.pattern, run'.type)
                       THEN "found" ELSE "loop"
    /\ (run.pc = "found" /\ run.state = "running") =>
          \/ lastOp'.result = "success" /\ Posted(run', {"success"}) # <<>>
          \/ lastOp'.result \in {"terminate", "sigterm"}

\* C24: success only for a matching address, at the first attempt that
\* matches
C24_SuccessOnFirstMatch == [][SuccessOnFirstMatch]_vars

\* a 'contains' run has posted success for an address that has the pattern
\* inside in another case, after attempts that did not match
C24_Witness ==
    /\ run.state = "returned" /\ run.type = "contains" /\ run.attempts = 3
    /\ Posted(run, {"success"}) # <<>>
    /\ run.posted[1].result.address = <<"x", "a", "B", "y">>
    /\ ~includes(run.address, run.pattern)

(***************************************************************************)
(* C29.  A run posts a progress message in the attempts whose count is a   *)
(* multiple of PROGRESS_INTERVAL (1000, 2000, ...) and in no other         *)
(* attempt, one message per such attempt, carrying that count; no other    *)
(* step of the run posts progress.                                         *)
(***************************************************************************)
ProgressAtMultiples ==
    /\ lastOp'.result = "attempt" =>
          /\ run'.attempts = run.attempts + 1
          /\ Posted(run', {"progress"}) =
                IF run'.attempts % PROGRESS_INTERVAL = 0
                THEN <<[type |-> "progress", attempts |-> run'.attempts,
                        error |-> "", result |-> NoWallet]>>
                ELSE <<>>
    /\ lastOp'.result # "attempt" => Posted(run', {"progress"}) = <<>>
    /\ run'.progress = run'.attempts \div PROGRESS_INTERVAL

\* C29: progress exactly at the multiples of PROGRESS_INTERVAL
C29_ProgressAtMultiples == [][ProgressAtMultiples]_vars

\* the second progress message has just been posted, at attempt 2000
C29_Witness ==
    /\ run.state = "running" /\ run.attempts = 2 * PROGRESS_INTERVAL
    /\ run.progress = 2 /\ run.pc = "loop"
    /\ Len(Posted(run, {"progress"})) = 1
    /\ run.posted[1].attempts = 2 * PROGRESS_INTERVAL

(***************************************************************************)
(* C30.  The error for exhausted attempts is posted only by a run that has *)
(* made MAX_ATTEMPTS attempts, the last of them without a match, and has   *)
(* posted no terminal message; such a run, unless it is stopped from       *)
(* outside, can do nothing else, and it has returned after it.  So the     *)
(* error never comes before the ceiling and never after a success, that of *)
(* the last attempt included.                                              *)
(***************************************************************************)
ExhaustedAtCeiling ==
    /\ (\E i \in 1..Len(run'.posted) : run'.posted[i].error = "max attempts") =>
          /\ run.attempts = MAX_ATTEMPTS /\ run'.attempts = MAX_ATTEMPTS
          /\ run.pc = "loop" /\ run.terminals = 0
          /\ run.type \in MatchTypes => ~Matches(run.address, run.pattern, run.type)
          /\ Len(run'.posted) = 1 /\ run'.terminals = 1
          /\ run'.state = "returned"
    /\ (run.state = "running" /\ run.pc = "loop" /\ run.attempts = MAX_ATTEMPTS) =>
          \/ lastOp'.result = "exhausted" /\ run'.posted[1].error = "max attempts"
          \/ lastOp'.result \in {"terminate", "sigterm"}
    /\ run.attempts <= MAX_ATTEMPTS /\ run'.attempts <= MAX_ATTEMPTS

\* C30: the exhaustion error at the ceiling, once, and never after success
C30_ExhaustedAtCeiling == [][ExhaustedAtCeiling]_vars

\* a run has made MAX_ATTEMPTS attempts without a match, posted the error
\* and returned
C30_Witness ==
    /\ run.state = "returned" /\ run.attempts = MAX_ATTEMPTS
    /\ run.terminals = 1 /\ run.progress = MAX_ATTEMPTS \div PROGRESS_INTERVAL
    /\ Len(run.posted) = 1 /\ run.posted[1].error = "max attempts"

(***************************************************************************)
(* Difficulty estimates.                                                   *)
(***************************************************************************)
\* the difficulty model has applied calculateDifficulty to a pattern
Estimated == vResult # NoResult /\ "pattern" \in DOMAIN vInput

\* a < b and a <= b for difficulties num / den, Infinity being 1 / 0
DifficultyLess(a, b) ==
    /\ a.den # 0
    /\ b.den = 0 \/ BigLess(BigMul(a.num, b.den), BigMul(b.num, a.den))
DifficultyAtMost(a, b) == ~DifficultyLess(b, a)

\* the difficulty of the pattern under test is below that of every longer one
BelowLonger ==
    \A q \in DifficultyPatterns :
        Len(q) > Len(vInput.pattern) =>
            DifficultyLess(vResult.difficulty,
                           calculateDifficulty(q, vInput.type).difficulty)

\* ... or equal to it
AtMostLonger ==
    \A q \in DifficultyPatterns :
        Len(q) > Len(vInput.pattern) =>
            DifficultyAtMost(vResult.difficulty,
                             calculateDifficulty(q, vInput.type).difficulty)

\* 'contains' is no harder than 'prefix' and 'suffix' on the pattern under test
ContainsAtMost ==
    \A t \in {"prefix", "suffix"} :
        /\ vInput.type = "contains" =>
               DifficultyAtMost(vResult.difficulty,
                                calculateDifficulty(vInput.pattern, t).difficulty)
        /\ vInput.type = t =>
               DifficultyAtMost(
                   calculateDifficulty(vInput.pattern, "contains").difficulty,
                   vResult.difficulty)

\* C25 as stated: difficulty strictly increasing in the pattern length for
\* each match type, and 'contains' at most 'prefix'/'suffix' for every pattern
C25_StrictlyIncreasing == Estimated => BelowLonger /\ ContainsAtMost

\* C25 amended: for each match type the difficulty is strictly increasing
\* in the pattern length while 58^length is a finite double (lengths 1 to
\* 174) and stays Infinity from there on, and for every non-empty pattern
\* 'contains' is at most 'prefix'/'suffix'
C25_IncreasingWhileFinite ==
    (Estimated /\ Len(vInput.pattern) >= 1) =>
        /\ ~Overflows(Len(vInput.pattern)) => BelowLonger
        /\ AtMostLonger
        /\ Overflows(Len(vInput.pattern)) => vResult.difficulty.den = 0
        /\ ContainsAtMost

\* a 'contains' estimate of a pattern of several symbols, which divides
\* the power by the length
C25_Witness ==
    /\ Estimated /\ vInput.type = "contains"
    /\ Len(vInput.pattern) = maxPatternLength
    /\ vResult.difficulty.den = maxPatternLength

\* the input of the example: pattern "ABC", matchType prefix
ExampleEstimated ==
    Estimated /\ vInput = [pattern |-> <<"A", "B", "C">>, type |-> "prefix"]

\* Math.round(n * ln 2), ln 2 to six places, for n below 10^8
RoundTimesLn2(n) ==
    LET product == BigAdd(BigMul(BigMul(BigOf(n), 693), 1000),
                          BigMul(BigOf(n), 147))
    IN  BigToInt(BigDiv(BigDiv(BigAdd(product, BigOf(500000)), 1000), 1000))

\* what the example yields besides estimatedAttempts
ExampleRest ==
    /\ vResult.difficulty = [num |-> BigOf(195112), den |-> 1]
    /\ vResult.estimatedTime = [n |-> BigOf(2), unit |-> "m"]
    /\ vResult.warningLevel = "medium"

SecondsBelow(estimatedAttempts, seconds) ==
    /\ estimatedAttempts # Infinity
    /\ Len(estimatedAttempts) <= 2
    /\ BigToInt(estimatedAttempts) < seconds * 1000

\* C28: the warning level is 'easy' below 60 estimated seconds, 'medium'
\* from 60 and below 300, 'hard' from 300 and below 1800, 'extreme' from
\* 1800 on, the estimated seconds being estimatedAttempts / 1000
C28_WarningLevel ==
    (vResult # NoResult) =>
        LET e == vResult.estimatedAttempts
            level == vResult.warningLevel
        IN  /\ level = "easy" <=> SecondsBelow(e, 60)
            /\ level = "medium" <=> ~SecondsBelow(e, 60) /\ SecondsBelow(e, 300)
            /\ level = "hard" <=> ~SecondsBelow(e, 300) /\ SecondsBelow(e, 1800)
            /\ level = "extreme" <=> ~SecondsBelow(e, 1800)

\* an estimate of exactly 60 seconds, rated 'medium'
C28_Witness ==
    /\ vResult # NoResult /\ "estimatedAttempts" \in DOMAIN vInput
    /\ vInput.estimatedAttempts = BigOf(60000)
    /\ vResult.warningLevel = "medium"

(***************************************************************************)
(* C31.  An exception thrown in the search loop ends the loop: the run     *)
(* posts one 'error' message with the text of the exception and returns,   *)
(* and no run dies of an uncaught exception.                               *)
(***************************************************************************)
FaultReported ==
    /\ lastOp'.result = "fault" =>
          /\ run.state = "running" /\ run.terminals = 0
          /\ run'.thrown \in FaultTexts
          /\ run'.posted = <<[type |-> "error", attempts |-> 0,
                              error |-> run'.thrown, result |-> NoWallet]>>
          /\ run'.terminals = 1 /\ run'.state = "returned"
          /\ run'.attempts = run.attempts /\ run'.progress = run.progress
    /\ run'.thrown # run.thrown => lastOp'.result = "fault"
    /\ run'.state # "crashed"
    /\ run.state # "running" => run'.state = run.state

\* C31: a fault in the loop is reported as one error message with its text
C31_FaultReported == [][FaultReported]_vars

\* a run has caught an exception after a progress message and reported it
C31_Witness ==
    /\ run.state = "returned" /\ run.thrown = "entropy source failure"
    /\ run.progress = 1 /\ run.terminals = 1
    /\ Len(run.posted) = 1 /\ run.posted[1].error = "entropy source failure"

(***************************************************************************)
(* C32.  The difficulty on the record of a job is the one calculated from  *)
(* its pattern and type when the job was started; no step changes it while *)
(* the job is in the active table, and getStatus returns it.               *)
(***************************************************************************)
DifficultyAsCalculated ==
    \A u \in Users :
        activeJobs[u] # NoJob =>
            activeJobs[u].difficulty =
                calculateDifficulty(activeJobs[u].pattern, activeJobs[u].type)

DifficultyKept ==
    /\ \A u \in Users :
          (activeJobs[u] # NoJob /\ activeJobs'[u] # NoJob) =>
              IF activeJobs'[u].worker = activeJobs[u].worker
              THEN /\ activeJobs'[u].difficulty = activeJobs[u].difficulty
                   /\ activeJobs'[u].pattern = activeJobs[u].pattern
                   /\ activeJobs'[u].type = activeJobs[u].type
              ELSE lastOp'.op = "start"
    /\ (lastOp'.op = "status" /\ activeJobs[lastOp'.user] # NoJob) =>
          lastReturn'.difficulty = activeJobs[lastOp'.user].difficulty
    /\ (lastOp'.op = "start" /\ lastOp'.result = "Started") =>
          lastReturn'.difficulty = activeJobs'[lastOp'.user].difficulty

\* C32: the difficulty of a job is fixed at its creation
C32_DifficultyFixed == [](DifficultyAsCalculated) /\ [][DifficultyKept]_vars

\* getStatus has returned the difficulty of a second job, a 'contains' one,
\* after a progress notification about it
C32_Witness ==
    /\ lastOp.op = "status" /\ lastOp.job = 2
    /\ activeJobs[lastOp.user].lastProgress = NOTIFY_INTERVAL
    /\ activeJobs[lastOp.user].type = "contains"
    /\ lastReturn.difficulty.difficulty = [num |-> BigOf(195112), den |-> 3]
    /\ lastReturn.difficulty.warningLevel = "easy"

(***************************************************************************)
(* C33.  The jobs ever created have pairwise different jobIds, those of    *)
(* one requester included.                                                 *)
(***************************************************************************)
\* the jobId job j was created with, as its worker was given it
JobIdOf(j) == workers[j].jobId

\* C33: no two jobs ever created have the same jobId
C33_JobIdsUnique ==
    \A j, k \in 1..jobCount : j # k => JobIdOf(j) # JobIdOf(k)

(***************************************************************************)
(* C34.  An event of the worker of a job (message, error or exit) that     *)
(* comes while a later job of the same requester is in the active table    *)
(* leaves that job as it is: its entry, its worker, its timeout and the    *)
(* notifications about it.                                                 *)
(***************************************************************************)
WorkerEvent(op) == op.op \in {"message", "error", "exit"}

EarlierJobHarmless ==
    \A j \in Jobs, k \in Jobs :
        (/\ WorkerEvent(lastOp') /\ lastOp'.job = j
         /\ j < k /\ Owner(j) = Owner(k) /\ InTable(k))
            => /\ activeJobs'[Owner(k)] = activeJobs[Owner(k)]
               /\ workers'[k] = workers[k]
               /\ timers'[k] = timers[k]
               /\ notes'[k] = notes[k]

\* C34: events of an earlier job do not touch a later job of its requester
C34_EarlierJobHarmless == [][EarlierJobHarmless]_vars

(***************************************************************************)
(* C35.  A worker that is running and a timeout that is armed belong to a  *)
(* job in the active table; a job in the active table has a worker of its  *)
(* own and a timeout of its own, which is armed, and no other timeout of   *)
(* its requester is armed.                                                 *)
(***************************************************************************)
RunningOnlyInTable == \A j \in Jobs : workers[j].state = "running" => InTable(j)

EntryHasWorkerAndTimeout ==
    \A u \in Users :
        activeJobs[u] # NoJob =>
            LET jobInfo == activeJobs[u]
            IN  /\ Created(jobInfo.worker) /\ Owner(jobInfo.worker) = u
                /\ workers[jobInfo.worker].state # "none"
                /\ jobInfo.timeout = jobInfo.worker
                /\ {j \in Jobs : timers[j] = "armed" /\ Owner(j) = u}
                       = {jobInfo.timeout}
                /\ \A v \in Users \ {u} :
                       activeJobs[v] # NoJob =>
                           /\ activeJobs[v].worker # jobInfo.worker
                           /\ activeJobs[v].timeout # jobInfo.timeout

\* C35: no worker runs and no timeout is armed without its job in the
\* active table, and every job there has its own worker and armed timeout
C35_NoOrphans ==
    RunningOnlyInTable /\ ArmedOnlyInTable /\ EntryHasWorkerAndTimeout

\* a requester's second job runs with its timeout armed after the first
\* was cancelled and its worker has exited
C35_Witness ==
    /\ InTable(2) /\ Concluded(1) /\ Owner(1) = Owner(2)
    /\ workers[1].state = "exited" /\ timers[1] = "cleared"
    /\ workers[2].state = "running" /\ timers[2] = "armed"

(***************************************************************************)
(* C36.  An 'error' event or an exit with a non-zero code of the worker of *)
(* a job in the active table removes the job, clears its timeout and sends *)
(* a failure notification; an exit with code 0 of such a worker changes    *)
(* nothing, and the job then leaves the table by cancel or timeout only.   *)
(***************************************************************************)
\* the step is the event of the worker of a job that is in the active table
OwnEvent(op, kinds) == op.op \in kinds /\ InTable(op.job)

FailureHandled ==
    (OwnEvent(lastOp', {"error"})
     \/ (OwnEvent(lastOp', {"exit"}) /\ lastOp'.result = "1")) =>
        LET j == lastOp'.job
        IN  /\ activeJobs'[Owner(j)] = NoJob
            /\ timers[j] = "armed" /\ timers'[j] = "cleared"
            /\ Len(notes'[j]) = Len(notes[j]) + 1
            /\ LastNote([notes |-> notes'], j).kind = "error"

QuietExitIgnored ==
    (OwnEvent(lastOp', {"exit"}) /\ lastOp'.result = "0") =>
        UNCHANGED <<activeJobs, timers, notes>>

\* a job whose worker has exited with code 0 leaves the table by cancel or
\* timeout
StaysUntilCancelOrTimeout ==
    \A j \in Jobs :
        (InTable(j) /\ workers[j].state = "exited"
         /\ activeJobs'[Owner(j)] # activeJobs[Owner(j)]) =>
            lastOp'.op \in {"cancel", "timeout"}

FailureOrQuietExit ==
    FailureHandled /\ QuietExitIgnored /\ StaysUntilCancelOrTimeout

TableFull(jobs) == Cardinality(ActiveUsers(jobs)) >= maxConcurrentJobs
\* the pattern and type of the call are not valid, by the rules of
\* validatePattern and its rating of 'extreme' patterns (C6)
InputInvalid(in) ==
    \/ BadPattern(in.pattern)
    \/ calculateDifficulty(in.pattern, in.type).warningLevel = "extreme"

ChecksInOrder ==
    lastOp'.op = "start" =>
        LET userId == lastOp'.user
        IN  lastOp'.result =
                IF activeJobs[userId] # NoJob THEN "AlreadyActive"
                ELSE IF TableFull(activeJobs) THEN "ConcurrencyLimitReached"
                ELSE IF InputInvalid(vInput') THEN "InvalidPattern"
                ELSE "Started"

\* C37: the rejections of startGeneration come in a fixed order
C37_ChecksInOrder == [][ChecksInOrder]_vars

\* a requester without a job has submitted an invalid pattern to a full
\* table and got ConcurrencyLimitReached
C37_Witness ==
    /\ lastOp.op = "start" /\ lastOp.result = "ConcurrencyLimitReached"
    /\ activeJobs[lastOp.user] = NoJob
    /\ TableFull(activeJobs)
    /\ InputInvalid(vInput) /\ vInput.pattern = <<"0">>

(***************************************************************************)
(* C38.  The attempt counts of the progress messages of a run increase     *)
(* from each message to the next; and a success at an attempt whose count  *)
(* is a multiple of PROGRESS_INTERVAL comes straight after the progress    *)
(* message of that attempt and carries the same count.                     *)
(***************************************************************************)
ProgressThenSuccess ==
    /\ Posted(run', {"progress"}) # <<>> =>
          /\ Len(Posted(run', {"progress"})) = 1
          /\ Posted(run', {"progress"})[1].attempts > run.lastProgressReport
          /\ Posted(run', {"progress"})[1].attempts = run'.lastProgressReport
    /\ Posted(run', {"progress"}) = <<>> =>
          run'.lastProgressReport >= run.lastProgressReport
    /\ (Posted(run', {"success"}) # <<>>
        /\ run.attempts % PROGRESS_INTERVAL = 0) =>
          /\ run.posted = <<[type |-> "progress", attempts |-> run.attempts,
                             error |-> "", result |-> NoWallet]>>
          /\ Len(run'.posted) = 1
          /\ run'.posted[1].type = "success"
          /\ run'.posted[1].attempts = run.attempts
          /\ run'.posted[1].result.attempts = run.attempts

\* C38: progress counts increase, and progress comes before a success of
\* the same attempt
C38_ProgressThenSuccess == [][ProgressThenSuccess]_vars

\* the attempt 1000 of a run matched: after one progress message, for that
\* attempt, the run has posted success with the same count
C38_Witness ==
    /\ run.state = "returned" /\ run.attempts = PROGRESS_INTERVAL
    /\ run.lastProgressReport = PROGRESS_INTERVAL /\ run.progress = 1
    /\ Posted(run, {"success"}) # <<>>
    /\ run.posted[1].result.attempts = PROGRESS_INTERVAL

(***************************************************************************)
(* C39.  A match type other than prefix, suffix and contains is treated as *)
(* prefix: validatePattern returns for it what it returns for the same     *)
(* pattern with prefix, the difficulty included, startGeneration starts a  *)
(* job with it when the pattern is valid, and the worker made with it      *)
(* matches the addresses that begin with the pattern.                      *)
(***************************************************************************)
OtherType(type) == type \notin MatchTypes

ValidatedLikePrefix ==
    (Validated_Ran /\ OtherType(vInput.type)) =>
        /\ vResult = validatePatternBody(vInput.pattern, "prefix")
        /\ Len(vInput.pattern) > 0 =>
               vResult.difficulty = calculateDifficulty(vInput.pattern, "prefix")
        /\ vResult.valid <=>
               ~(BadPattern(vInput.pattern)
                 \/ vResult.difficulty.warningLevel = "extreme")

StartedLikePrefix ==
    (lastOp'.op = "start" /\ OtherType(vInput.type)) =>
        /\ lastOp'.result =
               StartResult(activeJobs, lastOp'.user, vInput.pattern, "prefix")
        /\ lastOp'.result = "Started" =>
               activeJobs'[lastOp'.user].type = vInput.type

MatchedLikePrefix ==
    /\ (lastOp'.result = "begin" /\ OtherType(vInput.type)) =>
           run'.type = vInput.type /\ run'.pattern = vInput.pattern
    /\ (lastOp'.result = "attempt" /\ OtherType(run.type)) =>
           (run'.pc = "found" <=> Matches(run'.address, run'.pattern, "prefix"))

\* C39: an unknown match type is accepted and treated like prefix
C39_OtherTypeIsPrefix ==
    [](ValidatedLikePrefix) /\ [][StartedLikePrefix /\ MatchedLikePrefix]_vars

\* a job of an unknown type was started and its worker has posted success
\* for an address that begins with the pattern
C39_Witness ==
    /\ OtherType(vInput.type) /\ vResult.valid
    /\ jobCount = 1 /\ activeJobs[UserOrder[1]].type = vInput.type
    /\ run.state = "returned" /\ run.type = vInput.type
    /\ Posted(run, {"success"}) # <<>>
    /\ run.address = <<"a", "B", "x", "y">>

====
